---- MODULE Spec2Model ----
(***************************************************************************)
(* RentPlatform single-page client: the HTTP client (services/api.ts), the *)
(* session context (AuthProvider), the route guards and the page handlers  *)
(* of App.tsx, latest variant (src/App.tsx lines 509-1489).                *)
(*                                                                         *)
(* The browser runs one event at a time; every action below is one event   *)
(* handler or one continuation of an async handler up to its next await.   *)
(* State updates made inside one continuation are committed together       *)
(* (React batches them), followed by the re-render, the <Navigate>         *)
(* redirects and the mount effects that this re-render triggers.           *)
(***************************************************************************)
EXTENDS Integers, Sequences, FiniteSets, TLC

\* ------------------------------------------------------------------ bounds
MaxInflight == 2      \* requests that may be pending at the same time
MaxOrphans == 1        \* pending requests whose page instance is gone
MaxFetches == 3       \* cap of the per-mount product-list request counter
MaxTimers == 1        \* pending setTimeout callbacks of the forgot-password form
MaxHops == 4          \* redirects followed before a redirect loop is reported

\* ------------------------------------------------------------- value space
Null == "null"                         \* JS null for string-valued things
NullUser == [null |-> TRUE]            \* JS null for the User object

Emails == {"u@x", "a@x"}
RoleOf(e) == IF e = "a@x" THEN "admin" ELSE "user"
TokenOf(e) == IF e = "a@x" THEN "tok_a" ELSE "tok_u"
Tokens == {TokenOf(e) : e \in Emails}
EmailOfToken(t) == CHOOSE e \in Emails : TokenOf(e) = t
Balances == {0, 5}
Prices == {3}

UserRecords == {[email |-> e, role |-> RoleOf(e), balance |-> b] : e \in Emails, b \in Balances}

\* what the backend may answer to POST /users/login (types: AuthResponse)
AuthResponses == {[access_token |-> TokenOf(u.email), user |-> u] : u \in UserRecords}

\* what the backend may answer to GET /users/me for a bearer credential
MeResponses(auth) == IF auth \in Tokens
                     THEN {u \in UserRecords : u.email = EmailOfToken(auth)}
                     ELSE {}

ProductRecords == {[id |-> 1, price |-> pr, quantity |-> q, is_rented |-> r] :
                      pr \in Prices, q \in {0, 1}, r \in BOOLEAN}
Catalogs == {<<>>} \cup {<<p>> : p \in ProductRecords}
AnnouncementLists == {<<>>, <<"a1">>}
\* an active order with an OTP secret, an expired order without one
OrderRecords == {[id |-> 1, is_expired |-> x, otp_info |-> IF x THEN "" ELSE "secret"] :
                   x \in BOOLEAN}
OrderLists == {<<>>} \cup {<<o>> : o \in OrderRecords}

OrderIds == {1}
\* History: useState<Record<number, string>>({}) and useState<Record<number, boolean>>({})
NoOtp == [id \in OrderIds |-> ""]
NoOtpLoading == [id \in OrderIds |-> FALSE]

StorageKeys == {"token", "register_email", "reset_email"}

AuthPaths == {"/login", "/register", "/verify", "/forgot-password", "/reset"}
UserPaths == {"/dashboard", "/history", "/profile"}
AdminPaths == {"/admin/products", "/admin/products/new", "/admin/products/edit/:id",
               "/admin/users", "/admin/promos", "/admin/announcements"}
\* the locations the user is modelled to enter (address bar, links, back button)
NavPaths == {"/login", "/register", "/forgot-password", "/", "/nowhere",
             "/dashboard", "/history", "/profile", "/admin/users"}
\* the e-mail address typed into the forms of the auth page
FormEmail == "u@x"

\* ------------------------------------------------------------------- state
VARIABLES
  user,           \* AuthProvider: useState<User | null>
  token,          \* AuthProvider: useState<string | null>
  loading,        \* AuthProvider: useState(true)
  apiReady,       \* AuthProvider: useState(false)
  localStorage,   \* browser storage, key -> value or Null
  path,           \* location of the HashRouter
  screen,         \* the component the last render left mounted
  inflight,       \* pending requests, in issue order, each with its continuation
  sent,           \* the requests issued by the last event, in order
  authIsLoading,  \* AuthPage: isLoading
  authError,      \* AuthPage: error
  products,       \* Dashboard: products
  announcements,  \* Dashboard: announcements
  dashFetches,    \* product-list requests issued since the Dashboard was mounted
  orders,         \* History: orders
  histLoading,    \* History: loading
  otpCache,       \* History: otpCache, order id -> the OTP shown, "INVALID", or ""
  otpLoading,     \* History: otpLoading, order id -> flag
  users,          \* AdminUserManagement: users
  dialog,         \* the prompt or confirm dialog answered in the last step
  done,           \* the handler run the last event ended, with the requests it issued
  lastNav,        \* the location the user entered in the last event, or Null
  sinceLogout,    \* "no", "out" after logout(), "reloaded" after a reload that follows it
  shown,          \* how the last event told the user of an error: alert, inline, console,
                  \* dropped (set on a component instance that is gone), none
  setterCalls,    \* the setters of the session context the last event called
  navTo,          \* the target of navigate() called in the last event, or Null
  timers,         \* pending setTimeout(() => navigate('/reset'), 2000) callbacks
  call,           \* unit harness: the function called last and its arguments
  result          \* unit harness: what that call returned

vars == <<user, token, loading, apiReady, localStorage, path, screen, inflight, sent,
          authIsLoading, authError, products, announcements, dashFetches, orders, histLoading,
          otpCache, otpLoading, users, dialog, done,
          lastNav, sinceLogout, shown, setterCalls, navTo, timers, call, result>>

appVars == <<user, token, loading, apiReady, localStorage, path, screen, inflight, sent,
             authIsLoading, authError, products, announcements, dashFetches, orders, histLoading,
          otpCache, otpLoading, users, dialog, done,
             lastNav, sinceLogout, shown, setterCalls, navTo, timers>>
NoCall == [fn |-> "none"]
\* no window.prompt or window.confirm was shown
NoDialog == [kind |-> "none", answer |-> Null]

Run(h, outcome, chain, val) == [h |-> h, outcome |-> outcome, chain |-> chain, val |-> val]
NoRun == Run("none", "none", <<>>, NullUser)

\* ------------------------------------------------------------ route guards
Redirect(to) == [kind |-> "redirect", to |-> to, name |-> ""]
Page(name) == [kind |-> "page", to |-> "", name |-> name]

PageOf(p) ==
  CASE p = "/dashboard" -> "Dashboard"
    [] p = "/history" -> "History"
    [] p = "/profile" -> "Profile"
    [] p = "/admin/products" -> "AdminProductManagement"
    [] p = "/admin/products/new" -> "AdminProductForm"
    [] p = "/admin/products/edit/:id" -> "AdminProductForm"
    [] p = "/admin/users" -> "AdminUserManagement"
    [] p = "/admin/promos" -> "AdminPromoManagement"
    [] p = "/admin/announcements" -> "AdminAnnouncementManagement"
    [] OTHER -> "AuthPage"

UserScreens == {PageOf(p) : p \in UserPaths}
AdminScreens == {PageOf(p) : p \in AdminPaths}
ProtectedScreens == UserScreens \cup AdminScreens

\* faulty variant: the test for a missing user is dropped
ProtectedLayout_noUserTest(ld, usr, children) ==
  IF ld THEN Page("Blank") ELSE children

\* ProtectedLayout: nothing while loading, to /login without a user, else children
ProtectedLayout(ld, usr, children) ==
  IF ld THEN Page("Blank")
  ELSE IF usr = NullUser THEN Redirect("/login")
  ELSE children

\* faulty variant: the role test is dropped
AdminRoute_open(usr, children) == children

\* AdminRoute: user?.role !== 'admin' redirects to /dashboard
AdminRoute(usr, children) ==
  IF usr = NullUser \/ usr.role # "admin" THEN Redirect("/dashboard")
  ELSE children

\* faulty variant: the auth routes are part of both route tables
AppRoutes_authRoutesKept(tok, usr, ld, p) ==
  IF p \in AuthPaths THEN Page("AuthPage")
  ELSE IF tok = Null THEN Redirect("/login")
  ELSE IF p = "/" THEN Redirect("/dashboard")
  ELSE IF p \in UserPaths THEN ProtectedLayout(ld, usr, Page(PageOf(p)))
  ELSE IF p \in AdminPaths
       THEN ProtectedLayout(ld, usr, AdminRoute(usr, Page(PageOf(p))))
  ELSE Redirect("/dashboard")

\* AppRoutes: the route table is chosen by the in-memory token
AppRoutes(tok, usr, ld, p) ==
  IF tok = Null
  THEN IF p \in AuthPaths THEN Page("AuthPage") ELSE Redirect("/login")
  ELSE IF p = "/" THEN Redirect("/dashboard")
  ELSE IF p \in UserPaths THEN ProtectedLayout(ld, usr, Page(PageOf(p)))
  ELSE IF p \in AdminPaths
       THEN ProtectedLayout(ld, usr, AdminRoute(usr, Page(PageOf(p))))
  ELSE Redirect("/dashboard")

\* the render settles when no <Navigate> is left: follow the redirects
RECURSIVE Follow(_, _, _, _, _)
Follow(tok, usr, ld, p, hops) ==
  LET e == AppRoutes(tok, usr, ld, p) IN
  IF e.kind = "page" THEN [path |-> p, screen |-> e.name, hops |-> hops]
  ELSE IF hops >= MaxHops THEN [path |-> p, screen |-> "RedirectLoop", hops |-> hops]
  ELSE Follow(tok, usr, ld, e.to, hops + 1)

\* AuthProvider's own render: the loading text, the connection-error screen,
\* or the provider with the routes below it
Render(ld, rdy, tok, usr, p) ==
  IF ld THEN [path |-> p, screen |-> "Loading", hops |-> 0]
  ELSE IF ~rdy THEN [path |-> p, screen |-> "ConnError", hops |-> 0]
  ELSE Follow(tok, usr, ld, p, 0)

\* ------------------------------------------------------------- HTTP client
\* getToken(): localStorage.getItem("token")
getToken(ls) == ls["token"]

Bump(n) == IF n < MaxFetches THEN n + 1 ELSE n

\* faulty variant: the credential is taken from the session context
Issue_tokenFromContext(s, ep, k, arg, chain) ==
  LET r == [ep |-> ep, auth |-> s.tok, k |-> k, alive |-> TRUE,
            arg |-> arg, chain |-> Append(chain, ep)]
  IN [s EXCEPT !.infl = Append(@, r), !.snt = Append(@, r),
               !.fetches = IF ep = "getProducts" THEN Bump(@) ELSE @]

\* request(): `if (token) headers.set("Authorization", ...)`, then fetch.
\* The pending request keeps its continuation k, the component instance it
\* belongs to (alive), a captured local (arg) and the requests its handler
\* run has issued so far (chain).
Issue(s, ep, k, arg, chain) ==
  LET r == [ep |-> ep, auth |-> getToken(s.ls), k |-> k, alive |-> TRUE,
            arg |-> arg, chain |-> Append(chain, ep)]
  IN [s EXCEPT !.infl = Append(@, r), !.snt = Append(@, r),
               !.fetches = IF ep = "getProducts" THEN Bump(@) ELSE @]

\* a request issued by the continuation of request r belongs to r's instance
IssueFrom(r, s, ep, k, arg) ==
  LET t == Issue(s, ep, k, arg, r.chain)
  IN [t EXCEPT !.infl[Len(t.infl)].alive = r.alive, !.snt[Len(t.snt)].alive = r.alive]

Drop(seq, i) == SubSeq(seq, 1, i - 1) \o SubSeq(seq, i + 1, Len(seq))

\* JavaScript values, as far as request() looks at them
Undefined == [t |-> "undefined"]
JsNull == [t |-> "null"]
Str(v) == [t |-> "string", v |-> v]
Arr(v) == [t |-> "array", v |-> v]
Obj(keys, detail) == [t |-> "object", keys |-> keys, detail |-> detail]
EmptyObject == Obj({}, Undefined)

\* the response bodies the backend (or a proxy in front of it) is modelled to send
BodyTexts == {"", "<html>Bad Gateway</html>", "null", "[]", "{}", "{\"id\":1}",
              "{\"detail\":\"Insufficient balance\"}", "{\"detail\":\"\"}",
              "{\"detail\":[{\"msg\":\"field required\"}]}"}

\* response.json(): the parsed value, or a rejection with a SyntaxError
ParseJson(text) ==
  CASE text = "null" -> [ok |-> TRUE, value |-> JsNull]
    [] text = "[]" -> [ok |-> TRUE, value |-> Arr("")]
    [] text = "{}" -> [ok |-> TRUE, value |-> EmptyObject]
    [] text = "{\"id\":1}" -> [ok |-> TRUE, value |-> Obj({"id"}, Undefined)]
    [] text = "{\"detail\":\"Insufficient balance\"}" ->
         [ok |-> TRUE, value |-> Obj({"detail"}, Str("Insufficient balance"))]
    [] text = "{\"detail\":\"\"}" -> [ok |-> TRUE, value |-> Obj({"detail"}, Str(""))]
    [] text = "{\"detail\":[{\"msg\":\"field required\"}]}" ->
         [ok |-> TRUE, value |-> Obj({"detail"}, Arr("[object Object]"))]
    [] OTHER -> [ok |-> FALSE, value |-> Undefined]

\* x.detail
DetailOf(x) == IF x.t = "object" THEN x.detail ELSE Undefined
\* x || y picks y for undefined, null and the empty string
Truthy(x) == CASE x.t = "undefined" -> FALSE
               [] x.t = "null" -> FALSE
               [] x.t = "string" -> x.v # ""
               [] OTHER -> TRUE
\* new Error(x).message
ErrorMessage(x) == IF x.t \in {"string", "array"} THEN x.v ELSE "[object Object]"

Resolve(value) == [kind |-> "resolve", value |-> value, name |-> "", message |-> ""]
Reject(name, message) == [kind |-> "reject", value |-> Undefined, name |-> name,
                          message |-> message]

ResponseOk(response) == response.status \in 200..299

\* faulty variant: the error body is read without the fallback for a missing detail
request_noFallback(response) ==
  IF ~ResponseOk(response)
  THEN LET parsed == ParseJson(response.body)
           errorBody == IF parsed.ok THEN parsed.value ELSE Obj({"detail"}, Str(response.statusText))
       IN IF errorBody.t = "null"
          THEN Reject("TypeError", "Cannot read properties of null (reading 'detail')")
          ELSE Reject("Error", ErrorMessage(DetailOf(errorBody)))
  ELSE IF response.status = 204 \/ response.contentLength = "0" THEN Resolve(EmptyObject)
  ELSE LET parsed == ParseJson(response.body)
       IN IF parsed.ok THEN Resolve(parsed.value)
          ELSE Reject("SyntaxError", "Unexpected end of JSON input")

\* faulty variant: the 401 branch of the earliest client, `throw new Error("Unauthorized")`
request_unauthorized(response) ==
  IF response.status = 401 THEN Reject("Error", "Unauthorized")
  ELSE request_noFallback(response)

\* request(), from the answer of fetch() to its return or throw
request(response) ==
  IF ~ResponseOk(response)
  THEN LET parsed == ParseJson(response.body)
           errorBody == IF parsed.ok THEN parsed.value ELSE Obj({"detail"}, Str(response.statusText))
       IN IF errorBody.t = "null"
          THEN Reject("TypeError", "Cannot read properties of null (reading 'detail')")
          ELSE IF Truthy(DetailOf(errorBody))
               THEN Reject("Error", ErrorMessage(DetailOf(errorBody)))
               ELSE Reject("Error", "An unknown error occurred")
  ELSE IF response.status = 204 \/ response.contentLength = "0" THEN Resolve(EmptyObject)
  ELSE LET parsed == ParseJson(response.body)
       IN IF parsed.ok THEN Resolve(parsed.value)
          ELSE Reject("SyntaxError", "Unexpected end of JSON input")

\* ---------------------------------------------------------- session context
\* the working copy of the state an event handler updates before React commits
Cur == [usr |-> user, tok |-> token, ld |-> loading, rdy |-> apiReady,
        ls |-> localStorage, p |-> path, infl |-> inflight, snt |-> <<>>,
        aLoad |-> authIsLoading, aErr |-> authError,
        prods |-> products, anns |-> announcements, fetches |-> dashFetches,
        ords |-> orders, hLoad |-> histLoading,
        otpC |-> otpCache, otpL |-> otpLoading,
        adm |-> users, dlg |-> NoDialog,
        out |-> "none", calls |-> {}, nav |-> Null, tmr |-> timers]

\* faulty variant: the stored token is not removed
logout_keepsStorage(s) ==
  [s EXCEPT !.tok = Null, !.usr = NullUser, !.calls = @ \cup {"logout"}]

\* faulty variant: localStorage.clear() instead of removeItem('token')
logout_clearsStorage(s) ==
  [s EXCEPT !.ls = [k \in StorageKeys |-> Null], !.tok = Null, !.usr = NullUser,
            !.calls = @ \cup {"logout"}]

\* AuthProvider.logout
logout(s) ==
  [s EXCEPT !.ls = [@ EXCEPT !["token"] = Null], !.tok = Null, !.usr = NullUser,
            !.calls = @ \cup {"logout"}]

\* faulty variant: the user is left to a later who-am-I request
login_withoutUser(s, newToken, userData) ==
  [s EXCEPT !.ls = [@ EXCEPT !["token"] = newToken], !.tok = newToken,
            !.calls = @ \cup {"login"}]

\* AuthProvider.login
login(s, newToken, userData) ==
  [s EXCEPT !.ls = [@ EXCEPT !["token"] = newToken], !.tok = newToken, !.usr = userData,
            !.calls = @ \cup {"login"}]

\* faulty variant: the new data replaces the record instead of being merged into it
Merge_replace(currentUser, updatedUserData) == updatedUserData

\* { ...currentUser, ...updatedUserData }
Merge(currentUser, updatedUserData) ==
  [f \in DOMAIN currentUser \cup DOMAIN updatedUserData |->
     IF f \in DOMAIN updatedUserData THEN updatedUserData[f] ELSE currentUser[f]]

\* faulty variant: setUser(u => ({ ...u, ...updatedUserData })) without the null test
updateUser_noNullTest(s, updatedUserData) ==
  [s EXCEPT !.usr = Merge(@, updatedUserData), !.calls = @ \cup {"updateUser"}]

\* AuthProvider.updateUser
updateUser(s, updatedUserData) ==
  [s EXCEPT !.usr = IF @ # NullUser THEN Merge(@, updatedUserData) ELSE NullUser,
            !.calls = @ \cup {"updateUser"}]

\* ------------------------------------------------- render, mount and unmount
Orphan(infl, kinds) ==
  [i \in 1..Len(infl) |-> IF infl[i].k \in kinds THEN [infl[i] EXCEPT !.alive = FALSE]
                          ELSE infl[i]]

DashKinds == {"dash.products", "dash.announcements", "buy.buy", "buy.getMe"}
AuthKinds == {"submit.login", "submit.form"}

\* Dashboard: useEffect(() => { getProducts(); getActiveAnnouncements() }, [])
DashboardMountEffect(s) ==
  LET s1 == Issue(s, "getProducts", "dash.products", Null, <<>>)
      s2 == Issue(s1, "getActiveAnnouncements", "dash.announcements", Null, <<>>)
  IN s2

ProfileKinds == {"pass.change", "redeem.redeem", "redeem.getMe"}
HistoryKinds == {"hist.fetch", "renew.renew", "renew.getMe", "otp.calc", "otp.clipboard"}
AdminUserKinds == {"users.fetch", "users.setBalance", "users.deleteUser", "users.deleteOrder"}

\* the continuations that belong to an instance of a page component
KindsOf(scr) ==
  CASE scr = "Dashboard" -> DashKinds
    [] scr = "AuthPage" -> AuthKinds
    [] scr = "Profile" -> ProfileKinds
    [] scr = "History" -> HistoryKinds
    [] scr = "AdminUserManagement" -> AdminUserKinds
    [] OTHER -> {}

\* History.fetchHistory as created in a render with user usr, called while the
\* instance is mounted (alive) or after it is gone
fetchHistory(s, usr, alive) ==
  IF usr = NullUser THEN s
  ELSE LET s1 == [s EXCEPT !.hLoad = IF alive THEN TRUE ELSE @]
           ep == IF usr.role = "admin" THEN "getAllOrders" ELSE "getHistory"
           t == Issue(s1, ep, "hist.fetch", Null, <<>>)
       IN [t EXCEPT !.infl[Len(t.infl)].alive = alive, !.snt[Len(t.snt)].alive = alive]

\* the effects a page component runs when it is mounted
MountEffect(scr, s) ==
  CASE scr = "Dashboard" -> DashboardMountEffect(s)
    [] scr = "History" -> fetchHistory(s, s.usr, TRUE)
    [] OTHER -> s

\* the effects a mounted page runs again when the user object was replaced:
\* History's useEffect depends on fetchHistory, which depends on [user]
UserEffect(scr, s) ==
  IF scr = "History" /\ s.calls \cap {"login", "updateUser"} # {} /\ s.usr # NullUser
  THEN fetchHistory(s, s.usr, TRUE)
  ELSE s

\* React commits the handler's updates, renders, follows the redirects, unmounts
\* what left the tree and runs the mount effects of what entered it.
Commit(s, nav, run, since) ==
  \E s0 \in {s} :
  \E r \in {Render(s0.ld, s0.rdy, s0.tok, s0.usr, s0.p)} :
  \E remount \in {r.screen # screen \/ r.hops > 0} :
  \E s1 \in {IF remount
             THEN [s0 EXCEPT !.infl = Orphan(@, KindsOf(screen)),
                             !.prods = <<>>, !.anns = <<>>, !.fetches = 0,
                             !.ords = <<>>, !.hLoad = TRUE,
                             !.otpC = NoOtp, !.otpL = NoOtpLoading, !.adm = <<>>,
                             !.aLoad = FALSE, !.aErr = ""]
             ELSE s0} :
  \E s2 \in {IF remount THEN MountEffect(r.screen, s1) ELSE UserEffect(r.screen, s1)} :
     /\ Len(s2.infl) <= MaxInflight
     /\ Cardinality({n \in 1..Len(s2.infl) : ~s2.infl[n].alive}) <= MaxOrphans
     /\ user' = s2.usr /\ token' = s2.tok /\ loading' = s2.ld /\ apiReady' = s2.rdy
     /\ localStorage' = s2.ls /\ path' = r.path /\ screen' = r.screen
     /\ inflight' = s2.infl /\ sent' = s2.snt
     /\ authIsLoading' = s2.aLoad /\ authError' = s2.aErr
     /\ products' = s2.prods /\ announcements' = s2.anns /\ dashFetches' = s2.fetches
     /\ orders' = s2.ords /\ histLoading' = s2.hLoad
     /\ otpCache' = s2.otpC /\ otpLoading' = s2.otpL
     /\ users' = s2.adm /\ dialog' = s2.dlg
     /\ done' = run /\ lastNav' = nav /\ sinceLogout' = since
     /\ shown' = s2.out /\ setterCalls' = s2.calls /\ navTo' = s2.nav
     /\ timers' = s2.tmr
     /\ UNCHANGED <<call, result>>

\* ------------------------------------------------------------------ startup
\* AuthProvider after its first render and mount effect: fetchUserOnMount has
\* called checkApiStatus, which awaits api.healthCheck()
Mounted(ls, p) ==
  Issue([usr |-> NullUser, tok |-> Null, ld |-> TRUE, rdy |-> FALSE, ls |-> ls, p |-> p,
         infl |-> <<>>, snt |-> <<>>, aLoad |-> FALSE, aErr |-> "",
         prods |-> <<>>, anns |-> <<>>, fetches |-> 0, ords |-> <<>>, hLoad |-> TRUE,
         otpC |-> NoOtp, otpL |-> NoOtpLoading,
         adm |-> <<>>, dlg |-> NoDialog,
         out |-> "none", calls |-> {}, nav |-> Null, tmr |-> 0],
        "healthCheck", "mount.health", Null, <<>>)

Storages == {[k \in StorageKeys |-> IF k = "token" THEN t ELSE Null] : t \in {Null} \cup Tokens}

Start(s, since) ==
  /\ user = s.usr /\ token = s.tok /\ loading = s.ld /\ apiReady = s.rdy
  /\ localStorage = s.ls /\ path = s.p /\ screen = "Loading"
  /\ inflight = s.infl /\ sent = s.snt
  /\ authIsLoading = s.aLoad /\ authError = s.aErr
  /\ products = s.prods /\ announcements = s.anns /\ dashFetches = s.fetches
  /\ orders = s.ords /\ histLoading = s.hLoad
  /\ otpCache = s.otpC /\ otpLoading = s.otpL
  /\ users = s.adm /\ dialog = s.dlg
  /\ done = NoRun /\ lastNav = Null /\ sinceLogout = since
  /\ shown = s.out /\ setterCalls = s.calls /\ navTo = s.nav /\ timers = s.tmr
  /\ call = NoCall /\ result = NoCall

Init == \E ls \in Storages, p \in NavPaths : Start(Mounted(ls, p), "no")

\* the page is loaded again: memory and pending continuations are gone,
\* storage and the location stay
Reload ==
  /\ screen' = "Loading"
  /\ LET s == Mounted(localStorage, path) IN
       /\ user' = s.usr /\ token' = s.tok /\ loading' = s.ld /\ apiReady' = s.rdy
       /\ localStorage' = s.ls /\ path' = s.p
       /\ inflight' = s.infl /\ sent' = s.snt
       /\ authIsLoading' = s.aLoad /\ authError' = s.aErr
       /\ products' = s.prods /\ announcements' = s.anns /\ dashFetches' = s.fetches
       /\ orders' = s.ords /\ histLoading' = s.hLoad
       /\ otpCache' = s.otpC /\ otpLoading' = s.otpL
       /\ users' = s.adm /\ dialog' = s.dlg
  /\ done' = NoRun /\ lastNav' = Null
  /\ sinceLogout' = IF sinceLogout = "no" THEN "no" ELSE "reloaded"
  /\ shown' = "none" /\ setterCalls' = {} /\ navTo' = Null /\ timers' = 0
  /\ UNCHANGED <<call, result>>

\* faulty variant: startup goes on after a failed health check
HealthSettles_goesOn(i, ok) ==
  /\ inflight[i].k = "mount.health"
  /\ LET r == inflight[i]
         s0 == [Cur EXCEPT !.infl = Drop(@, i)]
         s1 == [s0 EXCEPT !.rdy = ok]
         existingToken == s1.ls["token"]
     IN IF existingToken # Null
        THEN Commit(Issue(s1, "getMe", "mount.getMe", existingToken, r.chain),
                    Null, NoRun, sinceLogout)
        ELSE Commit([s1 EXCEPT !.ld = FALSE], Null,
                    Run("fetchUserOnMount", IF ok THEN "noToken" ELSE "unreachable",
                        r.chain, NullUser),
                    sinceLogout)

\* fetchUserOnMount, from the health check's answer to its next await or its end
HealthSettles(i, ok) ==
  /\ inflight[i].k = "mount.health"
  /\ LET r == inflight[i]
         s0 == [Cur EXCEPT !.infl = Drop(@, i)]
     IN IF ~ok
        THEN Commit([s0 EXCEPT !.rdy = FALSE, !.ld = FALSE], Null,
                    Run("fetchUserOnMount", "unreachable", r.chain, NullUser), sinceLogout)
        ELSE LET s1 == [s0 EXCEPT !.rdy = TRUE]
                 existingToken == s1.ls["token"]
             IN IF existingToken # Null
                THEN Commit(Issue(s1, "getMe", "mount.getMe", existingToken, r.chain),
                            Null, NoRun, sinceLogout)
                ELSE Commit([s1 EXCEPT !.ld = FALSE], Null,
                            Run("fetchUserOnMount", "noToken", r.chain, NullUser),
                            sinceLogout)

\* faulty variant: a failed who-am-I only ends loading, the stored token stays
MountGetMeSettles_noLogout(i, ok, u) ==
  /\ inflight[i].k = "mount.getMe"
  /\ LET r == inflight[i]
         s0 == [Cur EXCEPT !.infl = Drop(@, i)]
     IN IF ok
        THEN /\ u \in MeResponses(r.auth)
             /\ Commit([s0 EXCEPT !.usr = u, !.tok = r.arg, !.ld = FALSE], Null,
                       Run("fetchUserOnMount", "ok", r.chain, u), sinceLogout)
        ELSE /\ u = NullUser
             /\ Commit([s0 EXCEPT !.ld = FALSE], Null,
                       Run("fetchUserOnMount", "getMeFailed", r.chain, NullUser),
                       sinceLogout)

\* faulty variant: the answer sets the user and leaves the token state null
MountGetMeSettles_userOnly(i, ok, u) ==
  /\ inflight[i].k = "mount.getMe"
  /\ LET r == inflight[i]
         s0 == [Cur EXCEPT !.infl = Drop(@, i)]
     IN IF ok
        THEN /\ u \in MeResponses(r.auth)
             /\ Commit([s0 EXCEPT !.usr = u, !.ld = FALSE], Null,
                       Run("fetchUserOnMount", "ok", r.chain, u), sinceLogout)
        ELSE /\ u = NullUser
             /\ Commit([logout(s0) EXCEPT !.ld = FALSE], Null,
                       Run("fetchUserOnMount", "getMeFailed", r.chain, NullUser), "out")

\* fetchUserOnMount, from the answer of api.getMe() to its end
MountGetMeSettles(i, ok, u) ==
  /\ inflight[i].k = "mount.getMe"
  /\ LET r == inflight[i]
         s0 == [Cur EXCEPT !.infl = Drop(@, i)]
     IN IF ok
        THEN /\ u \in MeResponses(r.auth)
             /\ Commit([s0 EXCEPT !.usr = u, !.tok = r.arg, !.ld = FALSE], Null,
                       Run("fetchUserOnMount", "ok", r.chain, u), sinceLogout)
        ELSE /\ u = NullUser
             /\ Commit([logout(s0) EXCEPT !.ld = FALSE], Null,
                       Run("fetchUserOnMount", "getMeFailed", r.chain, NullUser), "out")

\* the user enters a location
Navigate(p) ==
  Commit([Cur EXCEPT !.p = p], p, NoRun, sinceLogout)

\* faulty variant: handleSubmit without setIsLoading(true)
SubmitLogin_noLoading ==
  /\ screen = "AuthPage" /\ path = "/login" /\ ~authIsLoading
  /\ Commit(Issue([Cur EXCEPT !.aErr = ""],
                  "login", "submit.login", Null, <<>>),
            Null, NoRun, sinceLogout)

\* ----------------------------------------------------------------- AuthPage
\* handleSubmit in mode login, up to `await api.login(...)`; the submit button
\* is disabled while isLoading
SubmitLogin ==
  /\ screen = "AuthPage" /\ path = "/login" /\ ~authIsLoading
  /\ Commit(Issue([Cur EXCEPT !.aErr = "", !.aLoad = TRUE],
                  "login", "submit.login", Null, <<>>),
            Null, NoRun, sinceLogout)

\* handleSubmit in mode login, from the answer of api.login() to its end
LoginSettles(i, ok, res) ==
  /\ inflight[i].k = "submit.login"
  /\ LET r == inflight[i]
         s0 == [Cur EXCEPT !.infl = Drop(@, i)]
     IN IF ok
        THEN /\ res \in AuthResponses
             /\ Commit([login(s0, res.access_token, res.user) EXCEPT
                          !.p = "/dashboard", !.nav = "/dashboard",
                          !.aLoad = IF r.alive THEN FALSE ELSE @],
                       Null,
                       Run("handleSubmit", "ok", r.chain, res),
                       "no")
        ELSE /\ res = NullUser
             /\ Commit([s0 EXCEPT !.aErr = IF r.alive THEN "error" ELSE @,
                                  !.aLoad = IF r.alive THEN FALSE ELSE @,
                                  !.out = IF r.alive THEN "inline" ELSE "dropped"],
                       Null,
                       Run("handleSubmit", "failed", r.chain, NullUser),
                       sinceLogout)

\* the mode prop of the AuthPage route element of a location
ModeOf(p) ==
  CASE p = "/register" -> "register"
    [] p = "/verify" -> "verify"
    [] p = "/forgot-password" -> "forgot"
    [] p = "/reset" -> "reset"
    [] OTHER -> "login"

\* the api function handleSubmit awaits in each mode
EndpointOf(mode) ==
  CASE mode = "register" -> "register"
    [] mode = "verify" -> "verify"
    [] mode = "forgot" -> "forgotPassword"
    [] mode = "reset" -> "resetPassword"
    [] OTHER -> "login"

\* the submit button pressed while a required input is empty or the e-mail input
\* is malformed: the browser's constraint validation reports it on the input and
\* does not dispatch the submit event, so handleSubmit is not called. `differ`
\* tells whether password and confirmation differ at that moment (one of them
\* being empty, for instance)
SubmitBlocked(differ) ==
  /\ screen = "AuthPage" /\ ~authIsLoading
  /\ differ => ModeOf(path) = "register"
  /\ Commit(Cur, Null, Run("form.submit", "blocked", <<>>, [differ |-> differ]),
            sinceLogout)

\* faulty variant: the mismatch ends the handler without setError
SubmitForm_noError(matches) ==
  /\ screen = "AuthPage" /\ ModeOf(path) # "login" /\ ~authIsLoading
  /\ IF ModeOf(path) = "register" /\ ~matches
     THEN Commit([Cur EXCEPT !.aLoad = FALSE],
                 Null, Run("handleSubmit", "mismatch", <<>>, NullUser), sinceLogout)
     ELSE Commit(Issue([Cur EXCEPT !.aErr = "", !.aLoad = TRUE],
                       EndpointOf(ModeOf(path)), "submit.form", ModeOf(path), <<>>),
                 Null, NoRun, sinceLogout)

\* handleSubmit in the modes register, verify, forgot and reset, up to its await;
\* in mode register a password that differs from its confirmation throws at once
SubmitForm(matches) ==
  /\ screen = "AuthPage" /\ ModeOf(path) # "login" /\ ~authIsLoading
  /\ IF ModeOf(path) = "register" /\ ~matches
     THEN Commit([Cur EXCEPT !.aErr = "error", !.aLoad = FALSE, !.out = "inline"],
                 Null, Run("handleSubmit", "mismatch", <<>>, NullUser), sinceLogout)
     ELSE Commit(Issue([Cur EXCEPT !.aErr = "", !.aLoad = TRUE],
                       EndpointOf(ModeOf(path)), "submit.form", ModeOf(path), <<>>),
                 Null, NoRun, sinceLogout)

\* faulty variant: a successful registration goes back to the login form
FormSettles_registerToLogin(i, ok) ==
  /\ inflight[i].k = "submit.form"
  /\ LET r == inflight[i]
         mode == r.arg
         s0 == [Cur EXCEPT !.infl = Drop(@, i),
                           !.aLoad = IF r.alive THEN FALSE ELSE @]
     IN IF ~ok
        THEN Commit([s0 EXCEPT !.aErr = IF r.alive THEN "error" ELSE @,
                               !.out = IF r.alive THEN "inline" ELSE "dropped"],
                    Null, Run("handleSubmit", "failed", r.chain, NullUser), sinceLogout)
        ELSE CASE mode = "register" ->
                    Commit([s0 EXCEPT !.ls = [@ EXCEPT !["register_email"] = FormEmail],
                                      !.p = "/login", !.nav = "/login"],
                           Null, Run("handleSubmit", "ok", r.chain, NullUser), sinceLogout)
               [] mode = "forgot" ->
                    /\ timers < MaxTimers
                    /\ Commit([s0 EXCEPT !.ls = [@ EXCEPT !["reset_email"] = FormEmail],
                                         !.tmr = @ + 1],
                              Null, Run("handleSubmit", "ok", r.chain, NullUser),
                              sinceLogout)
               [] OTHER ->
                    Commit([s0 EXCEPT !.p = "/login", !.nav = "/login"],
                           Null, Run("handleSubmit", "ok", r.chain, NullUser), sinceLogout)

\* handleSubmit in those modes, from the answer of the request to its end
FormSettles(i, ok) ==
  /\ inflight[i].k = "submit.form"
  /\ LET r == inflight[i]
         mode == r.arg
         s0 == [Cur EXCEPT !.infl = Drop(@, i),
                           !.aLoad = IF r.alive THEN FALSE ELSE @]
     IN IF ~ok
        THEN Commit([s0 EXCEPT !.aErr = IF r.alive THEN "error" ELSE @,
                               !.out = IF r.alive THEN "inline" ELSE "dropped"],
                    Null, Run("handleSubmit", "failed", r.chain, NullUser), sinceLogout)
        ELSE CASE mode = "register" ->
                    Commit([s0 EXCEPT !.ls = [@ EXCEPT !["register_email"] = FormEmail],
                                      !.p = "/verify", !.nav = "/verify"],
                           Null, Run("handleSubmit", "ok", r.chain, NullUser), sinceLogout)
               [] mode = "forgot" ->
                    /\ timers < MaxTimers
                    /\ Commit([s0 EXCEPT !.ls = [@ EXCEPT !["reset_email"] = FormEmail],
                                         !.tmr = @ + 1],
                              Null, Run("handleSubmit", "ok", r.chain, NullUser),
                              sinceLogout)
               [] OTHER ->
                    Commit([s0 EXCEPT !.p = "/login", !.nav = "/login"],
                           Null, Run("handleSubmit", "ok", r.chain, NullUser), sinceLogout)

\* the callback of setTimeout(() => navigate('/reset'), 2000)
ResetTimerFires ==
  /\ timers > 0
  /\ Commit([Cur EXCEPT !.tmr = @ - 1, !.p = "/reset", !.nav = "/reset"],
            Null, Run("handleSubmit.timer", "ok", <<>>, NullUser), sinceLogout)

\* ------------------------------------------------------------------- Navbar
\* onLogout={logout}, offered by ProtectedLayout
ClickLogout ==
  /\ screen \in ProtectedScreens
  /\ Commit(logout(Cur), Null, Run("logout", "ok", <<>>, NullUser), "out")

\* ---------------------------------------------------------------- Dashboard
\* faulty variant: the effect runs again when the list arrives
ProductsSettle_refetch(i, ok, list) ==
  /\ inflight[i].k = "dash.products"
  /\ IF ok THEN list \in Catalogs ELSE list = <<>>
  /\ Commit(Issue([Cur EXCEPT !.infl = Drop(@, i),
                              !.prods = IF ok /\ inflight[i].alive THEN list ELSE @],
                  "getProducts", "dash.products", Null, <<>>),
            Null, NoRun, sinceLogout)

\* api.getProducts().then(setProducts).catch(console.error)
ProductsSettle(i, ok, list) ==
  /\ inflight[i].k = "dash.products"
  /\ IF ok THEN list \in Catalogs ELSE list = <<>>
  /\ Commit([Cur EXCEPT !.infl = Drop(@, i),
                        !.prods = IF ok /\ inflight[i].alive THEN list ELSE @,
                        !.out = IF ok THEN "none" ELSE "console"],
            Null, NoRun, sinceLogout)

\* api.getActiveAnnouncements().then(setAnnouncements).catch(console.error)
AnnouncementsSettle(i, ok, list) ==
  /\ inflight[i].k = "dash.announcements"
  /\ IF ok THEN list \in AnnouncementLists ELSE list = <<>>
  /\ Commit([Cur EXCEPT !.infl = Drop(@, i),
                        !.anns = IF ok /\ inflight[i].alive THEN list ELSE @,
                        !.out = IF ok THEN "none" ELSE "console"],
            Null, NoRun, sinceLogout)

\* faulty variant: a balance equal to the price does not suffice
BuyDisabled_strict(usr, p) ==
  \/ (IF usr = NullUser THEN 0 ELSE usr.balance) <= p.price
  \/ p.quantity <= 0
  \/ p.is_rented

\* the Buy button: disabled={(user?.balance || 0) < p.price || p.quantity <= 0 || p.is_rented}
BuyDisabled(usr, p) ==
  \/ (IF usr = NullUser THEN 0 ELSE usr.balance) < p.price
  \/ p.quantity <= 0
  \/ p.is_rented

\* handleBuy, up to `await api.buyProduct(product.id)`
ClickBuy(j, confirmed) ==
  /\ screen = "Dashboard"
  /\ j \in 1..Len(products)
  /\ ~BuyDisabled(user, products[j])
  /\ IF ~confirmed
     THEN Commit(Cur, Null,
                 Run("handleBuy", "declined", <<>>, NullUser), sinceLogout)
     ELSE Commit(Issue(Cur, "buyProduct", "buy.buy", Null, <<>>),
                 Null, NoRun, sinceLogout)

\* faulty variant: the client of the earliest variant, whose request() removes
\* the stored token when the answer is a 401
BuySettles_forcedLogout(i, ok) ==
  /\ inflight[i].k = "buy.buy"
  /\ LET r == inflight[i]
         s0 == [Cur EXCEPT !.infl = Drop(@, i)]
     IN IF ok
        THEN Commit(IssueFrom(r, s0, "getMe", "buy.getMe", Null),
                    Null, NoRun, sinceLogout)
        ELSE Commit([s0 EXCEPT !.ls = [@ EXCEPT !["token"] = Null], !.out = "alert"], Null,
                    Run("handleBuy", "buyFailed", r.chain, NullUser),
                    sinceLogout)

\* handleBuy, from the answer of api.buyProduct() to `await api.getMe()` or the catch
BuySettles(i, ok) ==
  /\ inflight[i].k = "buy.buy"
  /\ LET r == inflight[i]
         s0 == [Cur EXCEPT !.infl = Drop(@, i)]
     IN IF ok
        THEN Commit(IssueFrom(r, s0, "getMe", "buy.getMe", Null),
                    Null, NoRun, sinceLogout)
        ELSE Commit([s0 EXCEPT !.out = "alert"], Null,
                    Run("handleBuy", "buyFailed", r.chain, NullUser),
                    sinceLogout)

\* faulty variant: the new balance is computed from the price instead of being
\* taken from the answer
BuyGetMeSettles_subtractsPrice(i, ok, me) ==
  /\ inflight[i].k = "buy.getMe"
  /\ LET r == inflight[i]
         s0 == [Cur EXCEPT !.infl = Drop(@, i)]
     IN IF ok
        THEN /\ me \in MeResponses(r.auth)
             /\ \E price \in Prices :
                  Commit(updateUser(s0, [balance |-> IF s0.usr = NullUser THEN 0
                                                     ELSE s0.usr.balance - price]), Null,
                         Run("handleBuy", "ok", r.chain, me),
                         sinceLogout)
        ELSE /\ me = NullUser
             /\ Commit([s0 EXCEPT !.out = "alert"], Null,
                       Run("handleBuy", "getMeFailed", r.chain, NullUser),
                       sinceLogout)

\* handleBuy, from the answer of api.getMe() to its end
BuyGetMeSettles(i, ok, me) ==
  /\ inflight[i].k = "buy.getMe"
  /\ LET r == inflight[i]
         s0 == [Cur EXCEPT !.infl = Drop(@, i)]
     IN IF ok
        THEN /\ me \in MeResponses(r.auth)
             /\ Commit(updateUser(s0, [balance |-> me.balance]), Null,
                       Run("handleBuy", "ok", r.chain, me),
                       sinceLogout)
        ELSE /\ me = NullUser
             /\ Commit([s0 EXCEPT !.out = "alert"], Null,
                       Run("handleBuy", "getMeFailed", r.chain, NullUser),
                       sinceLogout)

\* ------------------------------------------------------------------ Profile
\* handlePassChange, up to `await api.changePassword(...)`; a new password that
\* differs from its confirmation ends the handler with an alert
SubmitPassChange(matches) ==
  /\ screen = "Profile"
  /\ IF ~matches
     THEN Commit([Cur EXCEPT !.out = "alert"], Null,
                 Run("handlePassChange", "mismatch", <<>>, NullUser), sinceLogout)
     ELSE Commit(Issue(Cur, "changePassword", "pass.change", Null, <<>>),
                 Null, NoRun, sinceLogout)

\* faulty variant: the success branch does not log out
PassChangeSettles_noLogout(i, ok) ==
  /\ inflight[i].k = "pass.change"
  /\ LET r == inflight[i]
         s0 == [Cur EXCEPT !.infl = Drop(@, i)]
     IN IF ok
        THEN Commit(s0, Null,
                    Run("handlePassChange", "ok", r.chain, NullUser), sinceLogout)
        ELSE Commit([s0 EXCEPT !.out = "alert"], Null,
                    Run("handlePassChange", "failed", r.chain, NullUser), sinceLogout)

\* handlePassChange, from the answer of api.changePassword() to its end
PassChangeSettles(i, ok) ==
  /\ inflight[i].k = "pass.change"
  /\ LET r == inflight[i]
         s0 == [Cur EXCEPT !.infl = Drop(@, i)]
     IN IF ok
        THEN Commit(logout(s0), Null,
                    Run("handlePassChange", "ok", r.chain, NullUser), "out")
        ELSE Commit([s0 EXCEPT !.out = "alert"], Null,
                    Run("handlePassChange", "failed", r.chain, NullUser), sinceLogout)

\* handleRedeemCode, up to `await api.redeemCode(promoCode)`; an empty code returns
SubmitRedeem(promoCode) ==
  /\ screen = "Profile"
  /\ IF promoCode = ""
     THEN Commit(Cur, Null,
                 Run("handleRedeemCode", "empty", <<>>, NullUser), sinceLogout)
     ELSE Commit(Issue(Cur, "redeemCode", "redeem.redeem", Null, <<>>),
                 Null, NoRun, sinceLogout)

\* handleRedeemCode, from the answer of api.redeemCode() to `await api.getMe()`
RedeemSettles(i, ok) ==
  /\ inflight[i].k = "redeem.redeem"
  /\ LET r == inflight[i]
         s0 == [Cur EXCEPT !.infl = Drop(@, i)]
     IN IF ok
        THEN Commit(IssueFrom(r, s0, "getMe", "redeem.getMe", Null),
                    Null, NoRun, sinceLogout)
        ELSE Commit([s0 EXCEPT !.out = "alert"], Null,
                    Run("handleRedeemCode", "redeemFailed", r.chain, NullUser),
                    sinceLogout)

\* handleRedeemCode, from the answer of api.getMe() to its end
RedeemGetMeSettles(i, ok, me) ==
  /\ inflight[i].k = "redeem.getMe"
  /\ LET r == inflight[i]
         s0 == [Cur EXCEPT !.infl = Drop(@, i)]
     IN IF ok
        THEN /\ me \in MeResponses(r.auth)
             /\ Commit(updateUser(s0, [balance |-> me.balance]), Null,
                       Run("handleRedeemCode", "ok", r.chain, me), sinceLogout)
        ELSE /\ me = NullUser
             /\ Commit([s0 EXCEPT !.out = "alert"], Null,
                       Run("handleRedeemCode", "getMeFailed", r.chain, NullUser),
                       sinceLogout)

\* ------------------------------------------------------------------ History
\* fetchHistory, from the answer of the order-list request to its end
HistorySettles(i, ok, list) ==
  /\ inflight[i].k = "hist.fetch"
  /\ IF ok THEN list \in OrderLists ELSE list = <<>>
  /\ LET r == inflight[i] IN
     Commit([Cur EXCEPT !.infl = Drop(@, i),
                        !.ords = IF ok /\ r.alive THEN list ELSE @,
                        !.hLoad = IF r.alive THEN FALSE ELSE @,
                        !.out = IF ok THEN "none" ELSE "console"],
            Null, Run("fetchHistory", IF ok THEN "ok" ELSE "failed", r.chain, NullUser),
            sinceLogout)

\* handleRenew, up to `await api.renewOrder(order.id)`; the table with its Renew
\* buttons is rendered when loading is false, the button of an expired order is
\* disabled. The handler keeps the user of the render it was created in.
ClickRenew(j, confirmed) ==
  /\ screen = "History" /\ ~histLoading
  /\ j \in 1..Len(orders) /\ ~orders[j].is_expired
  /\ IF ~confirmed
     THEN Commit(Cur, Null, Run("handleRenew", "declined", <<>>, NullUser), sinceLogout)
     ELSE Commit(Issue(Cur, "renewOrder", "renew.renew", user.role, <<>>),
                 Null, NoRun, sinceLogout)

\* handleRenew, from the answer of api.renewOrder() to `await api.getMe()`
RenewSettles(i, ok) ==
  /\ inflight[i].k = "renew.renew"
  /\ LET r == inflight[i]
         s0 == [Cur EXCEPT !.infl = Drop(@, i)]
     IN IF ok
        THEN Commit(IssueFrom(r, s0, "getMe", "renew.getMe", r.arg),
                    Null, NoRun, sinceLogout)
        ELSE Commit([s0 EXCEPT !.out = "alert"], Null,
                    Run("handleRenew", "renewFailed", r.chain, NullUser), sinceLogout)

\* handleRenew, from the answer of api.getMe() to its end: updateUser, then
\* fetchHistory() of the render the handler was created in
RenewGetMeSettles(i, ok, me) ==
  /\ inflight[i].k = "renew.getMe"
  /\ LET r == inflight[i]
         s0 == [Cur EXCEPT !.infl = Drop(@, i)]
         closureUser == [email |-> Null, role |-> r.arg, balance |-> 0]
     IN IF ok
        THEN /\ me \in MeResponses(r.auth)
             /\ Commit(fetchHistory(updateUser(s0, [balance |-> me.balance]),
                                    closureUser, r.alive),
                       Null, Run("handleRenew", "ok", r.chain, me), sinceLogout)
        ELSE /\ me = NullUser
             /\ Commit([s0 EXCEPT !.out = "alert"], Null,
                       Run("handleRenew", "getMeFailed", r.chain, NullUser),
                       sinceLogout)

\* what the answer of api.calcOtp() carries: `res?.otp ?? ''`
Otps == {"", "123456"}

\* the OTP cell shows the button when the order has a secret and nothing is cached
OtpOffered(o) == o.otp_info # "" /\ otpCache[o.id] = ""

\* the OTP button's onClick, up to `await api.calcOtp(...)`; the table is
\* rendered when loading is false, the button is not disabled while a request
\* is pending
ClickOtp(j) ==
  /\ screen = "History" /\ ~histLoading
  /\ j \in 1..Len(orders) /\ OtpOffered(orders[j])
  /\ Commit(Issue([Cur EXCEPT !.otpL[orders[j].id] = TRUE],
                  "calcOtp", "otp.calc", orders[j].id, <<>>),
            Null, NoRun, sinceLogout)

\* faulty variant: the OTP is not stored before the clipboard write
OtpSettles_storesLater(i, ok, otp) ==
  /\ inflight[i].k = "otp.calc"
  /\ IF ok THEN otp \in Otps ELSE otp = ""
  /\ LET r == inflight[i]
         id == r.arg
         s0 == [Cur EXCEPT !.infl = Drop(@, i)]
         unset == [s0 EXCEPT !.otpL[id] = IF r.alive THEN FALSE ELSE @]
     IN IF ok /\ otp # ""
        THEN Commit([s0 EXCEPT !.infl = Append(@, [r EXCEPT !.ep = "clipboard.writeText",
                                                            !.k = "otp.clipboard",
                                                            !.auth = Null])],
                    Null, NoRun, sinceLogout)
        ELSE IF ok
        THEN Commit(unset, Null,
                    Run("getOtp", "empty", r.chain, [id |-> id, alive |-> r.alive]),
                    sinceLogout)
        ELSE Commit([unset EXCEPT !.otpC[id] = IF r.alive THEN "INVALID" ELSE @,
                                  !.out = "console"],
                    Null, Run("getOtp", "failed", r.chain, [id |-> id, alive |-> r.alive]),
                    sinceLogout)

\* the onClick, from the answer of api.calcOtp() to `await
\* navigator.clipboard.writeText(otp)`, or to its end when the answer has no OTP
\* or the request failed
OtpSettles(i, ok, otp) ==
  /\ inflight[i].k = "otp.calc"
  /\ IF ok THEN otp \in Otps ELSE otp = ""
  /\ LET r == inflight[i]
         id == r.arg
         s0 == [Cur EXCEPT !.infl = Drop(@, i)]
         unset == [s0 EXCEPT !.otpL[id] = IF r.alive THEN FALSE ELSE @]
     IN IF ok /\ otp # ""
        THEN Commit([s0 EXCEPT !.otpC[id] = IF r.alive THEN otp ELSE @,
                               !.infl = Append(@, [r EXCEPT !.ep = "clipboard.writeText",
                                                            !.k = "otp.clipboard",
                                                            !.auth = Null])],
                    Null, NoRun, sinceLogout)
        ELSE IF ok
        THEN Commit(unset, Null,
                    Run("getOtp", "empty", r.chain, [id |-> id, alive |-> r.alive]),
                    sinceLogout)
        ELSE Commit([unset EXCEPT !.otpC[id] = IF r.alive THEN "INVALID" ELSE @,
                                  !.out = "console"],
                    Null, Run("getOtp", "failed", r.chain, [id |-> id, alive |-> r.alive]),
                    sinceLogout)

\* the onClick, from the end of the clipboard write (fulfilled or rejected, the
\* rejection is ignored) to its end in `finally`
ClipboardSettles(i, ok) ==
  /\ inflight[i].k = "otp.clipboard"
  /\ LET r == inflight[i]
         id == r.arg
     IN Commit([Cur EXCEPT !.infl = Drop(@, i),
                           !.otpL[id] = IF r.alive THEN FALSE ELSE @],
               Null,
               Run("getOtp", IF ok THEN "ok" ELSE "clipboardFailed", r.chain,
                   [id |-> id, alive |-> r.alive]),
               sinceLogout)

Next ==
  \/ Reload
  \/ \E i \in 1..Len(inflight), ok \in BOOLEAN : HealthSettles(i, ok)
  \/ \E i \in 1..Len(inflight), ok \in BOOLEAN, u \in UserRecords \cup {NullUser} :
        MountGetMeSettles(i, ok, u)
  \/ \E p \in NavPaths : Navigate(p)
  \/ SubmitLogin
  \/ \E i \in 1..Len(inflight), ok \in BOOLEAN, res \in AuthResponses \cup {NullUser} :
        LoginSettles(i, ok, res)
  \/ ClickLogout
  \/ \E i \in 1..Len(inflight), ok \in BOOLEAN, list \in Catalogs : ProductsSettle(i, ok, list)
  \/ \E i \in 1..Len(inflight), ok \in BOOLEAN, list \in AnnouncementLists :
        AnnouncementsSettle(i, ok, list)
  \/ \E j \in 1..Len(products), confirmed \in BOOLEAN : ClickBuy(j, confirmed)
  \/ \E i \in 1..Len(inflight), ok \in BOOLEAN : BuySettles(i, ok)
  \/ \E i \in 1..Len(inflight), ok \in BOOLEAN, me \in UserRecords \cup {NullUser} :
        BuyGetMeSettles(i, ok, me)
  \/ \E matches \in BOOLEAN : SubmitPassChange(matches)
  \/ \E i \in 1..Len(inflight), ok \in BOOLEAN : PassChangeSettles(i, ok)
  \/ \E promoCode \in {"", "PROMO"} : SubmitRedeem(promoCode)
  \/ \E i \in 1..Len(inflight), ok \in BOOLEAN : RedeemSettles(i, ok)
  \/ \E i \in 1..Len(inflight), ok \in BOOLEAN, me \in UserRecords \cup {NullUser} :
        RedeemGetMeSettles(i, ok, me)
  \/ \E i \in 1..Len(inflight), ok \in BOOLEAN, list \in OrderLists :
        HistorySettles(i, ok, list)
  \/ \E j \in 1..Len(orders), confirmed \in BOOLEAN : ClickRenew(j, confirmed)
  \/ \E i \in 1..Len(inflight), ok \in BOOLEAN : RenewSettles(i, ok)
  \/ \E i \in 1..Len(inflight), ok \in BOOLEAN, me \in UserRecords \cup {NullUser} :
        RenewGetMeSettles(i, ok, me)

Spec == Init /\ [][Next]_vars

\* the auth page with all its forms, the session it opens and the way back to it
NextAuth ==
  \/ Reload
  \/ \E i \in 1..Len(inflight), ok \in BOOLEAN : HealthSettles(i, ok)
  \/ \E i \in 1..Len(inflight), ok \in BOOLEAN, u \in UserRecords \cup {NullUser} :
        MountGetMeSettles(i, ok, u)
  \/ \E p \in NavPaths : Navigate(p)
  \/ SubmitLogin
  \/ \E i \in 1..Len(inflight), ok \in BOOLEAN, res \in AuthResponses \cup {NullUser} :
        LoginSettles(i, ok, res)
  \/ \E matches \in BOOLEAN : SubmitForm(matches)
  \/ \E differ \in BOOLEAN : SubmitBlocked(differ)
  \/ \E i \in 1..Len(inflight), ok \in BOOLEAN : FormSettles(i, ok)
  \/ ResetTimerFires
  \/ ClickLogout
  \/ \E i \in 1..Len(inflight), ok \in BOOLEAN, list \in Catalogs : ProductsSettle(i, ok, list)
  \/ \E i \in 1..Len(inflight), ok \in BOOLEAN, list \in AnnouncementLists :
        AnnouncementsSettle(i, ok, list)

SpecAuth == Init /\ [][NextAuth]_vars

\* ------------------------------------------------------ AdminUserManagement
\* the rows the server lists: the administrator and a customer, each with an
\* order, or the administrator alone
AdminRow == [id |-> 1, email |-> "a@x", role |-> "admin", balance |-> 0, orders |-> <<8>>]
CustomerRow == [id |-> 2, email |-> "u@x", role |-> "user", balance |-> 5, orders |-> <<7>>]
UserLists == {<<AdminRow>>, <<AdminRow, CustomerRow>>}

\* what window.prompt returns: null when cancelled, else the text, here as the
\* sequence of its characters
Cancelled == [cancelled |-> TRUE, text |-> <<>>]
Typed(text) == [cancelled |-> FALSE, text |-> text]
PromptAnswers == {Cancelled} \cup
  {Typed(t) : t \in {<<>>, <<" ">>, <<"a">>, <<"7">>, <<"1", "2">>, <<"1", "a">>,
                     <<"a", "1">>, <<"-", "3">>, <<" ", "7">>, <<"1", ".", "5">>}}

DigitChars == <<"0", "1", "2", "3", "4", "5", "6", "7", "8", "9">>
IsDigit(c) == \E d \in 1..Len(DigitChars) : DigitChars[d] = c
DigitVal(c) == (CHOOSE d \in 1..Len(DigitChars) : DigitChars[d] = c) - 1

RECURSIVE SkipSpace(_)
SkipSpace(s) == IF s # <<>> /\ s[1] = " " THEN SkipSpace(Tail(s)) ELSE s

\* the longest run of decimal digits at the head of s: how many, and their value
RECURSIVE ReadDigits(_, _, _)
ReadDigits(s, acc, n) ==
  IF s # <<>> /\ IsDigit(s[1])
  THEN ReadDigits(Tail(s), acc * 10 + DigitVal(s[1]), n + 1)
  ELSE [count |-> n, value |-> acc]

\* JavaScript parseInt(string) without radix, for texts without a 0x prefix:
\* leading white space is skipped, a sign is read, then the longest run of
\* decimal digits; what follows is ignored; without a digit the result is NaN
parseInt(s) ==
  LET t == SkipSpace(s)
      neg == t # <<>> /\ t[1] = "-"
      body == IF t # <<>> /\ t[1] \in {"-", "+"} THEN Tail(t) ELSE t
      d == ReadDigits(body, 0, 0)
  IN IF d.count = 0 THEN [nan |-> TRUE, value |-> 0]
     ELSE [nan |-> FALSE, value |-> IF neg THEN -d.value ELSE d.value]

\* fetchUsers, called by a handler run that belongs to the request r
fetchUsers(r, s) == IssueFrom(r, s, "admin.getUsers", "users.fetch", Null)

\* fetchUsers, from the answer of the list request to its end
UsersSettle(i, ok, list) ==
  /\ inflight[i].k = "users.fetch"
  /\ IF ok THEN list \in UserLists ELSE list = <<>>
  /\ LET r == inflight[i] IN
     Commit([Cur EXCEPT !.infl = Drop(@, i),
                        !.adm = IF ok /\ r.alive THEN list ELSE @,
                        !.out = IF ok THEN "none" ELSE "alert"],
            Null, Run("fetchUsers", IF ok THEN "ok" ELSE "failed", r.chain, NullUser),
            sinceLogout)

\* handleSetBalance, from the click on a row's Set Balance button, through the
\* prompt, up to `await api.admin.setBalance(...)`
ClickSetBalance(j, answer) ==
  /\ screen = "AdminUserManagement"
  /\ j \in 1..Len(users)
  /\ LET s0 == [Cur EXCEPT !.dlg = [kind |-> "prompt", answer |-> answer]]
         newBalance == parseInt(answer.text)
     IN IF answer.cancelled \/ answer.text = <<>>
        THEN Commit(s0, Null, Run("handleSetBalance", "noInput", <<>>, NullUser),
                    sinceLogout)
        ELSE IF newBalance.nan
        THEN Commit(s0, Null, Run("handleSetBalance", "notANumber", <<>>, NullUser),
                    sinceLogout)
        ELSE Commit(Issue(s0, "admin.setBalance", "users.setBalance",
                          [email |-> users[j].email, amount |-> newBalance.value], <<>>),
                    Null, NoRun, sinceLogout)

\* handleSetBalance, from the answer of the set-balance request to its end
SetBalanceSettles(i, ok) ==
  /\ inflight[i].k = "users.setBalance"
  /\ LET r == inflight[i]
         s0 == [Cur EXCEPT !.infl = Drop(@, i), !.out = "alert"]
     IN IF ok
        THEN Commit(fetchUsers(r, s0), Null,
                    Run("handleSetBalance", "ok", r.chain, NullUser), sinceLogout)
        ELSE Commit(s0, Null,
                    Run("handleSetBalance", "failed", r.chain, NullUser), sinceLogout)

\* faulty variant: the row of an administrator has the delete button too
DeleteOffered_all(u) == TRUE

\* the delete button of a row: `u.role !== 'admin' && (...)`
DeleteOffered(u) == u.role # "admin"

\* handleDeleteUser, from the click on a row's delete button, through the
\* confirm dialog, up to `await api.admin.deleteUser(user.id)`
ClickDeleteUser(j, confirmed) ==
  /\ screen = "AdminUserManagement"
  /\ j \in 1..Len(users) /\ DeleteOffered(users[j])
  /\ LET s0 == [Cur EXCEPT !.dlg = [kind |-> "confirm", answer |-> confirmed]]
     IN IF ~confirmed
        THEN Commit(s0, Null, Run("handleDeleteUser", "declined", <<>>, NullUser),
                    sinceLogout)
        ELSE Commit(Issue(s0, "admin.deleteUser", "users.deleteUser", users[j].id, <<>>),
                    Null, NoRun, sinceLogout)

\* handleDeleteOrder, from the click on the delete button of an order of a row,
\* through the confirm dialog, up to `await api.admin.deleteOrder(orderId)`
ClickDeleteOrder(j, n, confirmed) ==
  /\ screen = "AdminUserManagement"
  /\ j \in 1..Len(users) /\ n \in 1..Len(users[j].orders)
  /\ LET s0 == [Cur EXCEPT !.dlg = [kind |-> "confirm", answer |-> confirmed]]
     IN IF ~confirmed
        THEN Commit(s0, Null, Run("handleDeleteOrder", "declined", <<>>, NullUser),
                    sinceLogout)
        ELSE Commit(Issue(s0, "admin.deleteOrder", "users.deleteOrder",
                          users[j].orders[n], <<>>),
                    Null, NoRun, sinceLogout)

\* handleDeleteUser and handleDeleteOrder, from the answer of the delete
\* request to their end
DeleteSettles(i, ok) ==
  /\ inflight[i].k \in {"users.deleteUser", "users.deleteOrder"}
  /\ LET r == inflight[i]
         h == IF r.k = "users.deleteUser" THEN "handleDeleteUser" ELSE "handleDeleteOrder"
         s0 == [Cur EXCEPT !.infl = Drop(@, i), !.out = "alert"]
     IN IF ok
        THEN Commit(fetchUsers(r, s0), Null, Run(h, "ok", r.chain, NullUser), sinceLogout)
        ELSE Commit(s0, Null, Run(h, "failed", r.chain, NullUser), sinceLogout)

\* the application with the History page and its OTP cells
NextOtp ==
  \/ Reload
  \/ \E i \in 1..Len(inflight), ok \in BOOLEAN : HealthSettles(i, ok)
  \/ \E i \in 1..Len(inflight), ok \in BOOLEAN, u \in UserRecords \cup {NullUser} :
        MountGetMeSettles(i, ok, u)
  \/ \E p \in NavPaths : Navigate(p)
  \/ \E i \in 1..Len(inflight), ok \in BOOLEAN, list \in Catalogs : ProductsSettle(i, ok, list)
  \/ \E i \in 1..Len(inflight), ok \in BOOLEAN, list \in AnnouncementLists :
        AnnouncementsSettle(i, ok, list)
  \/ \E i \in 1..Len(inflight), ok \in BOOLEAN, list \in OrderLists : HistorySettles(i, ok, list)
  \/ \E j \in 1..Len(orders), confirmed \in BOOLEAN : ClickRenew(j, confirmed)
  \/ \E i \in 1..Len(inflight), ok \in BOOLEAN : RenewSettles(i, ok)
  \/ \E i \in 1..Len(inflight), ok \in BOOLEAN, me \in UserRecords \cup {NullUser} :
        RenewGetMeSettles(i, ok, me)
  \/ \E j \in 1..Len(orders) : ClickOtp(j)
  \/ \E i \in 1..Len(inflight), ok \in BOOLEAN, otp \in Otps : OtpSettles(i, ok, otp)
  \/ \E i \in 1..Len(inflight), ok \in BOOLEAN : ClipboardSettles(i, ok)

SpecOtp == Init /\ [][NextOtp]_vars

\* ------------------------------------------------------------ unit harnesses
Statuses == {200, 201, 204, 400, 401, 422, 500}
StatusTexts == {"", "Status Text"}
\* Content-Length: absent, "0" with an empty body, or the length of a body
Responses ==
  {r \in [status : Statuses, statusText : StatusTexts,
          contentLength : {Null, "0", "n"}, body : BodyTexts] :
     /\ r.contentLength = "0" => r.body = ""
     /\ r.contentLength = "n" => r.body # ""
     /\ r.status = 204 => r.body = ""}

InitRequest ==
  /\ user = NullUser /\ token = Null /\ loading = TRUE /\ apiReady = FALSE
  /\ localStorage = [k \in StorageKeys |-> Null] /\ path = "/login" /\ screen = "Loading"
  /\ inflight = <<>> /\ sent = <<>> /\ authIsLoading = FALSE /\ authError = ""
  /\ products = <<>> /\ announcements = <<>> /\ dashFetches = 0
  /\ orders = <<>> /\ histLoading = TRUE
  /\ otpCache = NoOtp /\ otpLoading = NoOtpLoading
  /\ users = <<>> /\ dialog = NoDialog
  /\ done = NoRun /\ lastNav = Null /\ sinceLogout = "no"
  /\ shown = "none" /\ setterCalls = {} /\ navTo = Null /\ timers = 0
  /\ \E r \in Responses : call = [fn |-> "request", response |-> r]
  /\ result = NoCall

\* fetch() answers and request() returns or throws
RequestReturns ==
  /\ call.fn = "request" /\ result = NoCall
  /\ result' = request(call.response)
  /\ UNCHANGED <<appVars, call>>

SpecRequest == InitRequest /\ [][RequestReturns]_vars

InitGuard ==
  /\ user = NullUser /\ token = Null /\ loading = TRUE /\ apiReady = FALSE
  /\ localStorage = [k \in StorageKeys |-> Null] /\ path = "/login" /\ screen = "Loading"
  /\ inflight = <<>> /\ sent = <<>> /\ authIsLoading = FALSE /\ authError = ""
  /\ products = <<>> /\ announcements = <<>> /\ dashFetches = 0
  /\ orders = <<>> /\ histLoading = TRUE
  /\ otpCache = NoOtp /\ otpLoading = NoOtpLoading
  /\ users = <<>> /\ dialog = NoDialog
  /\ done = NoRun /\ lastNav = Null /\ sinceLogout = "no"
  /\ shown = "none" /\ setterCalls = {} /\ navTo = Null /\ timers = 0
  /\ \E ld \in BOOLEAN, usr \in UserRecords \cup {NullUser}, name \in ProtectedScreens :
        call = [fn |-> "ProtectedLayout", ld |-> ld, usr |-> usr, children |-> Page(name)]
  /\ result = NoCall

\* ProtectedLayout renders with the context value {user, loading}
GuardRenders ==
  /\ call.fn = "ProtectedLayout" /\ result = NoCall
  /\ result' = ProtectedLayout(call.ld, call.usr, call.children)
  /\ UNCHANGED <<appVars, call>>

SpecGuard == InitGuard /\ [][GuardRenders]_vars

\* the session context driven through the three setters it exposes
Roles == {RoleOf(e) : e \in Emails}
PartialOn(D, e, r, b) ==
  [f \in D |-> CASE f = "email" -> e [] f = "role" -> r [] OTHER -> b]
Partials == {PartialOn(D, e, r, b) : D \in SUBSET {"email", "role", "balance"},
                                     e \in Emails, r \in Roles, b \in Balances}

InitContext ==
  /\ \E ls \in Storages : Start([Mounted(ls, "/login") EXCEPT !.snt = <<>>], "no")

Apply(s, c) ==
  /\ user' = s.usr /\ token' = s.tok /\ loading' = s.ld /\ apiReady' = s.rdy
  /\ localStorage' = s.ls /\ path' = s.p
  /\ inflight' = s.infl /\ sent' = s.snt
  /\ authIsLoading' = s.aLoad /\ authError' = s.aErr
  /\ products' = s.prods /\ announcements' = s.anns /\ dashFetches' = s.fetches
  /\ orders' = s.ords /\ histLoading' = s.hLoad
  /\ otpCache' = s.otpC /\ otpLoading' = s.otpL
  /\ users' = s.adm /\ dialog' = s.dlg
  /\ call' = c
  /\ setterCalls' = s.calls
  /\ UNCHANGED <<screen, done, lastNav, sinceLogout, shown, navTo, timers, result>>

CtxLogin(res) == Apply(login(Cur, res.access_token, res.user),
                       [fn |-> "login", arg |-> res, pre |-> Cur])
CtxLogout == Apply(logout(Cur), [fn |-> "logout", arg |-> NullUser, pre |-> Cur])
CtxUpdateUser(partial) == Apply(updateUser(Cur, partial),
                                [fn |-> "updateUser", arg |-> partial, pre |-> Cur])

NextContext ==
  \/ \E res \in AuthResponses : CtxLogin(res)
  \/ CtxLogout
  \/ \E partial \in Partials : CtxUpdateUser(partial)

SpecContext == InitContext /\ [][NextContext]_vars

\* two balance-refresh who-am-I requests of different handlers pending at once:
\* the first was issued by a page that has been left since, the second by the
\* page shown now. The backend answers them in the order of issue (answers), the
\* answers arrive in any order. A Buy was clicked on a product that is in stock
\* and that the user could pay.
OverlapKinds == {"buy.getMe", "renew.getMe", "redeem.getMe"}

PathOfKind(k) ==
  CASE k = "buy.getMe" -> "/dashboard"
    [] k = "renew.getMe" -> "/history"
    [] OTHER -> "/profile"

ChainOfKind(k) ==
  CASE k = "buy.getMe" -> <<"buyProduct", "getMe">>
    [] k = "renew.getMe" -> <<"renewOrder", "getMe">>
    [] OTHER -> <<"redeemCode", "getMe">>

PendingGetMe(k, u, alive) ==
  [ep |-> "getMe", auth |-> TokenOf(u.email), k |-> k, alive |-> alive,
   arg |-> IF k = "renew.getMe" THEN u.role ELSE Null, chain |-> ChainOfKind(k)]

InitOverlap ==
  \E u \in UserRecords, k1 \in OverlapKinds, k2 \in OverlapKinds,
     me1 \in UserRecords, me2 \in UserRecords, p \in ProductRecords :
     /\ k1 # k2
     /\ p.quantity = 1 /\ ~p.is_rented
     /\ "buy.getMe" \in {k1, k2} => ~BuyDisabled(u, p)
     /\ me1 \in MeResponses(TokenOf(u.email)) /\ me2 \in MeResponses(TokenOf(u.email))
     /\ user = u /\ token = TokenOf(u.email) /\ loading = FALSE /\ apiReady = TRUE
     /\ localStorage = [k \in StorageKeys |-> IF k = "token" THEN TokenOf(u.email) ELSE Null]
     /\ path = PathOfKind(k2) /\ screen = PageOf(PathOfKind(k2))
     /\ inflight = <<PendingGetMe(k1, u, FALSE), PendingGetMe(k2, u, TRUE)>>
     /\ sent = <<>> /\ authIsLoading = FALSE /\ authError = ""
     /\ IF k2 = "buy.getMe"
        THEN products = <<p>> /\ dashFetches = 1
        ELSE products = <<>> /\ dashFetches = 0
     /\ announcements = <<>>
     /\ IF k2 = "renew.getMe"
        THEN orders = <<[id |-> 1, is_expired |-> FALSE, otp_info |-> "secret"]>>
             /\ histLoading = FALSE
        ELSE orders = <<>> /\ histLoading = TRUE
     /\ otpCache = NoOtp /\ otpLoading = NoOtpLoading
     /\ users = <<>> /\ dialog = NoDialog
     /\ done = NoRun /\ lastNav = Null /\ sinceLogout = "no"
     /\ shown = "none" /\ setterCalls = {} /\ navTo = Null /\ timers = 0
     /\ call = [fn |-> "overlap", issued |-> <<k1, k2>>,
                answers |-> [k \in {k1, k2} |-> IF k = k1 THEN me1 ELSE me2]]
     /\ result = NoCall

\* the answer to a pending who-am-I arrives and its handler goes on
NextOverlap ==
  \/ \E i \in 1..Len(inflight) :
        inflight[i].k = "buy.getMe" /\ BuyGetMeSettles(i, TRUE, call.answers["buy.getMe"])
  \/ \E i \in 1..Len(inflight) :
        inflight[i].k = "renew.getMe" /\ RenewGetMeSettles(i, TRUE, call.answers["renew.getMe"])
  \/ \E i \in 1..Len(inflight) :
        inflight[i].k = "redeem.getMe" /\ RedeemGetMeSettles(i, TRUE, call.answers["redeem.getMe"])
  \/ \E i \in 1..Len(inflight), ok \in BOOLEAN, list \in OrderLists : HistorySettles(i, ok, list)

SpecOverlap == InitOverlap /\ [][NextOverlap]_vars

\* the Dashboard with its list loaded, for balances below, at and above the price
\* and for quantities around zero
BuyBalances == {0, 2, 3, 4}
BuyQuantities == {-1, 0, 1}

InitBuy ==
  \E e \in Emails, b \in BuyBalances, pr \in Prices, q \in BuyQuantities, r \in BOOLEAN :
     /\ user = [email |-> e, role |-> RoleOf(e), balance |-> b]
     /\ token = TokenOf(e) /\ loading = FALSE /\ apiReady = TRUE
     /\ localStorage = [k \in StorageKeys |-> IF k = "token" THEN TokenOf(e) ELSE Null]
     /\ path = "/dashboard" /\ screen = "Dashboard"
     /\ inflight = <<>> /\ sent = <<>> /\ authIsLoading = FALSE /\ authError = ""
     /\ products = <<[id |-> 1, price |-> pr, quantity |-> q, is_rented |-> r]>>
     /\ announcements = <<>> /\ dashFetches = 1
     /\ orders = <<>> /\ histLoading = TRUE
     /\ otpCache = NoOtp /\ otpLoading = NoOtpLoading
     /\ users = <<>> /\ dialog = NoDialog
     /\ done = NoRun /\ lastNav = Null /\ sinceLogout = "no"
     /\ shown = "none" /\ setterCalls = {} /\ navTo = Null /\ timers = 0
     /\ call = NoCall /\ result = NoCall

NextBuy ==
  \/ \E j \in 1..Len(products), confirmed \in BOOLEAN : ClickBuy(j, confirmed)
  \/ \E i \in 1..Len(inflight), ok \in BOOLEAN : BuySettles(i, ok)
  \/ \E i \in 1..Len(inflight), ok \in BOOLEAN, me \in UserRecords \cup {NullUser} :
        BuyGetMeSettles(i, ok, me)

SpecBuy == InitBuy /\ [][NextBuy]_vars

\* AdminUserManagement, mounted by an administrator: the list request of its
\* mount effect is pending
InitAdmin ==
  /\ user \in {u \in UserRecords : u.role = "admin"}
  /\ token = TokenOf(user.email) /\ loading = FALSE /\ apiReady = TRUE
  /\ localStorage = [k \in StorageKeys |-> IF k = "token" THEN token ELSE Null]
  /\ path = "/admin/users" /\ screen = "AdminUserManagement"
  /\ inflight = <<[ep |-> "admin.getUsers", auth |-> token, k |-> "users.fetch",
                   alive |-> TRUE, arg |-> Null, chain |-> <<"admin.getUsers">>]>>
  /\ sent = <<>> /\ authIsLoading = FALSE /\ authError = ""
  /\ products = <<>> /\ announcements = <<>> /\ dashFetches = 0
  /\ orders = <<>> /\ histLoading = TRUE
  /\ otpCache = NoOtp /\ otpLoading = NoOtpLoading
  /\ users = <<>> /\ dialog = NoDialog
  /\ done = NoRun /\ lastNav = Null /\ sinceLogout = "no"
  /\ shown = "none" /\ setterCalls = {} /\ navTo = Null /\ timers = 0
  /\ call = NoCall /\ result = NoCall

NextAdmin ==
  \/ \E i \in 1..Len(inflight), ok \in BOOLEAN, list \in UserLists : UsersSettle(i, ok, list)
  \/ \E j \in 1..Len(users), answer \in PromptAnswers : ClickSetBalance(j, answer)
  \/ \E i \in 1..Len(inflight), ok \in BOOLEAN : SetBalanceSettles(i, ok)
  \/ \E j \in 1..Len(users), confirmed \in BOOLEAN : ClickDeleteUser(j, confirmed)
  \/ \E j \in 1..Len(users), n \in 1..1, confirmed \in BOOLEAN :
        ClickDeleteOrder(j, n, confirmed)
  \/ \E i \in 1..Len(inflight), ok \in BOOLEAN : DeleteSettles(i, ok)
  \/ ClickLogout

SpecAdmin == InitAdmin /\ [][NextAdmin]_vars

\* ------------------------------------------------------------------ claims
Has(chain, ep) == \E n \in 1..Len(chain) : chain[n] = ep
Unauthenticated == user = NullUser /\ token = Null
\* the last event ended a run of handleSubmit in mode login with success
LoginSucceeded ==
  done.h = "handleSubmit" /\ done.outcome = "ok" /\ done.chain[1] = "login"

Returned == call.fn = "request" /\ result # NoCall
ErrorBody == ParseJson(call.response.body)
DetailPresent == ErrorBody.ok /\ ErrorBody.value.t = "object"
                   /\ "detail" \in ErrorBody.value.keys

\* C1 as stated: a non-2xx response rejects, with the detail of the JSON error
\* body as message when that field is present and the status text otherwise.
C1_Original ==
  (Returned /\ ~ResponseOk(call.response)) =>
     /\ result.kind = "reject"
     /\ result.message = IF DetailPresent THEN ErrorMessage(ErrorBody.value.detail)
                         ELSE call.response.statusText

\* C1, amended: a non-2xx response always rejects; the message is the detail when
\* the body is a JSON object whose detail is a non-empty string, the status text
\* when the body is not JSON and the status text is not empty, and the fixed text
\* 'An unknown error occurred' when the body is JSON other than null without a
\* detail or with an empty one, or is not JSON while the status text is empty.
C1_ErrorMessage ==
  (Returned /\ ~ResponseOk(call.response)) =>
     /\ result.kind = "reject"
     /\ (DetailPresent /\ ErrorBody.value.detail.t = "string"
           /\ ErrorBody.value.detail.v # "") =>
           result.message = ErrorBody.value.detail.v
     /\ (~ErrorBody.ok /\ call.response.statusText # "") =>
           result.message = call.response.statusText
     /\ (\/ ErrorBody.ok /\ ErrorBody.value.t # "null" /\ ~DetailPresent
         \/ DetailPresent /\ ErrorBody.value.detail = Str("")
         \/ ~ErrorBody.ok /\ call.response.statusText = "") =>
           result.message = "An unknown error occurred"

C1_Witness ==
  /\ Returned /\ call.response.status = 422 /\ call.response.body = "{}"
  /\ call.response.statusText # ""
  /\ result.kind = "reject" /\ result.message = "An unknown error occurred"

\* C2 as stated: every 2xx response with an empty body resolves to the empty
\* result object.
C2_Original ==
  (Returned /\ ResponseOk(call.response) /\ call.response.body = "") =>
     result = Resolve(EmptyObject)

C2_Witness ==
  /\ Returned /\ call.response.status = 200 /\ call.response.body = ""
  /\ call.response.contentLength = Null
  /\ result.kind = "reject" /\ result.name = "SyntaxError"

\* C3: when the login request succeeds, login(token, user) stores the token and
\* sets the in-memory token and user in the same step: the session is
\* authenticated with the user the login call returned, and neither the handler
\* nor that step issued a who-am-I request.
C3_LoginIsDirect ==
  LoginSucceeded =>
     /\ user = done.val.user
     /\ token = done.val.access_token
     /\ localStorage["token"] = done.val.access_token
     /\ user # NullUser /\ token # Null
     /\ done.chain = <<"login">>
     /\ \A n \in 1..Len(sent) : sent[n].ep # "getMe"

C3_Witness ==
  /\ LoginSucceeded
  /\ screen = "Dashboard" /\ user # NullUser

\* C4: after logout() the stored token is absent and the in-memory token and user
\* are null, and they stay so through a reload of the page until a login: the
\* mount that follows ends loading in the unauthenticated state.
C4_LogoutClears ==
  (sinceLogout # "no") => (localStorage["token"] = Null /\ Unauthenticated)

C4_Witness ==
  sinceLogout = "reloaded" /\ ~loading /\ apiReady /\ screen = "AuthPage"

\* C5 as stated: every startup with a stored token issues the who-am-I request.
C5_Original ==
  /\ \A n \in 1..Len(inflight) :
        inflight[n].k \in {"mount.health", "mount.getMe"} => loading
  /\ (done.h = "fetchUserOnMount") =>
        /\ ~loading
        /\ Has(done.chain, "getMe") =>
              \/ user = done.val /\ user # NullUser /\ token = localStorage["token"]
                   /\ token # Null
              \/ localStorage["token"] = Null /\ Unauthenticated
        /\ ~Has(done.chain, "getMe") => (localStorage["token"] = Null /\ Unauthenticated)

\* C5, amended: the session starts loading; when the startup health check
\* succeeds and a stored token exists the who-am-I request is issued with it, its
\* success makes the session authenticated with the returned user and that token,
\* its failure removes the stored token and leaves the session unauthenticated;
\* when the health check succeeds and no token is stored no who-am-I request is
\* issued; when the health check fails no who-am-I request is issued and the
\* session has no user and no token, whatever is stored. Loading ends in each case.
C5_Startup ==
  /\ \A n \in 1..Len(inflight) :
        /\ inflight[n].k \in {"mount.health", "mount.getMe"} => (loading /\ Unauthenticated)
        /\ inflight[n].k = "mount.getMe" =>
              (inflight[n].auth = localStorage["token"] /\ localStorage["token"] # Null)
  /\ (done.h = "fetchUserOnMount") =>
        /\ ~loading
        /\ done.outcome \in {"ok", "getMeFailed", "noToken", "unreachable"}
        /\ done.outcome = "ok" =>
              /\ Has(done.chain, "getMe") /\ apiReady
              /\ user = done.val /\ user # NullUser
              /\ token = localStorage["token"] /\ token # Null
        /\ done.outcome = "getMeFailed" =>
              (Has(done.chain, "getMe") /\ localStorage["token"] = Null /\ Unauthenticated)
        /\ done.outcome = "noToken" =>
              (~Has(done.chain, "getMe") /\ localStorage["token"] = Null /\ Unauthenticated
                 /\ apiReady)
        /\ done.outcome = "unreachable" =>
              (~Has(done.chain, "getMe") /\ Unauthenticated /\ ~apiReady)

C5_Witness ==
  /\ done.h = "fetchUserOnMount" /\ done.outcome = "unreachable"
  /\ localStorage["token"] # Null /\ ~loading

\* C6: an admin screen is rendered only for a session user with role admin; an
\* authenticated user without that role who enters an admin location lands on the
\* dashboard, an authenticated admin gets the admin screen of that location.
C6_AdminOnly ==
  /\ screen \in AdminScreens => (user # NullUser /\ user.role = "admin")
  /\ (lastNav \in AdminPaths /\ ~loading /\ apiReady /\ user # NullUser) =>
        IF user.role = "admin"
        THEN path = lastNav /\ screen = PageOf(lastNav)
        ELSE path = "/dashboard" /\ screen = "Dashboard"

C6_Witness ==
  /\ lastNav \in AdminPaths /\ user # NullUser /\ user.role = "user"
  /\ path = "/dashboard" /\ screen = "Dashboard"

C6_WitnessAdmin == screen \in AdminScreens /\ lastNav \in AdminPaths

\* C7: ProtectedLayout renders nothing while the session is loading, redirects to
\* the login screen when the user is null, and renders its children only when
\* the session is not loading and the user is not null.
C7_ProtectedLayout ==
  (call.fn = "ProtectedLayout" /\ result # NoCall) =>
     /\ call.ld => result = Page("Blank")
     /\ (~call.ld /\ call.usr = NullUser) => result = Redirect("/login")
     /\ (~call.ld /\ call.usr # NullUser) => result = call.children
     /\ (result.kind = "page" /\ result.name \in ProtectedScreens) =>
           (~call.ld /\ call.usr # NullUser)

C7_Witness ==
  /\ call.fn = "ProtectedLayout" /\ ~call.ld /\ call.usr = NullUser
  /\ result = Redirect("/login")

\* C8 as stated: a buy is requested only after confirmation; a successful buy is
\* followed by a who-am-I request and a product-list request; a declined or
\* failed buy is followed by neither.
C8_Original ==
  (done.h = "handleBuy") =>
     /\ done.outcome = "declined" => done.chain = <<>>
     /\ done.outcome = "buyFailed" => done.chain = <<"buyProduct">>
     /\ done.outcome = "ok" =>
           /\ Has(done.chain, "buyProduct")
           /\ Has(done.chain, "getMe")
           /\ Has(done.chain, "getProducts")
           /\ user # NullUser => user.balance = done.val.balance

C8_Witness ==
  /\ done.h = "handleBuy" /\ done.outcome = "ok"
  /\ done.chain = <<"buyProduct", "getMe">>
  /\ user # NullUser /\ user.balance = done.val.balance

\* C9: while the Dashboard stays mounted exactly one product-list request has
\* been issued for that mount.
C9_OneFetchPerMount ==
  /\ screen = "Dashboard" => dashFetches = 1
  /\ Cardinality({n \in 1..Len(inflight) :
                    inflight[n].k = "dash.products" /\ inflight[n].alive}) <= 1

C9_Witness ==
  /\ screen = "Dashboard" /\ dashFetches = 1 /\ products # <<>>
  /\ localStorage["token"] # Null
  /\ \A n \in 1..Len(inflight) : inflight[n].k # "dash.products"

C11_BearerFromStorage ==
  /\ \A n \in 1..Len(sent) : sent[n].auth = localStorage["token"]
  /\ LoginSucceeded =>
        \A n \in 1..Len(sent) : sent[n].auth = done.val.access_token
  /\ (sinceLogout # "no") => \A n \in 1..Len(sent) : sent[n].auth = Null

C11_Witness ==
  /\ LoginSucceeded
  /\ Len(sent) > 0 /\ sent[1].auth = done.val.access_token /\ sent[1].auth # Null

C11_WitnessStartup ==
  /\ Len(sent) > 0 /\ sent[1].ep = "getMe" /\ sent[1].auth # Null /\ token = Null

\* C12: on the Profile page a successful change-password request ends in logout
\* (stored token removed, user and token null); a new password that differs from
\* its confirmation issues no request and changes nothing of the session; a
\* failed request leaves the session as it was.
C12_PassChange ==
  [][(done'.h = "handlePassChange") =>
       /\ done'.outcome \in {"ok", "mismatch", "failed"}
       /\ done'.outcome = "ok" =>
             /\ done'.chain = <<"changePassword">>
             /\ localStorage'["token"] = Null /\ user' = NullUser /\ token' = Null
       /\ done'.outcome = "mismatch" =>
             /\ sent' = <<>> /\ done'.chain = <<>> /\ inflight' = inflight
             /\ user' = user /\ token' = token /\ localStorage' = localStorage
       /\ done'.outcome = "failed" =>
             /\ user' = user /\ token' = token /\ localStorage' = localStorage
             /\ sent' = <<>>]_vars

C12_Witness ==
  /\ done.h = "handlePassChange" /\ done.outcome = "ok"
  /\ screen = "AuthPage" /\ localStorage["token"] = Null /\ user = NullUser

C12_WitnessFailed ==
  /\ done.h = "handlePassChange" /\ done.outcome = "failed"
  /\ screen = "Profile" /\ user # NullUser /\ token # Null

SubmitEnded == done.h = "handleSubmit"
Landed(p) == navTo = p /\ (token = Null => (path = p /\ screen = "AuthPage"))

C13_WitnessRegister ==
  /\ SubmitEnded /\ done.outcome = "ok" /\ done.chain = <<"register">> /\ path = "/verify"

C13_WitnessFailed ==
  /\ SubmitEnded /\ done.outcome = "failed" /\ done.chain = <<"verify">>
  /\ shown = "inline" /\ path = "/verify"

OrderListRequests == {n \in 1..Len(sent) : sent[n].ep \in {"getAllOrders", "getHistory"}}

\* C14 as stated: the History page issues the global order-list request exactly
\* when the session user's role is admin, the personal one otherwise, and none
\* while the session user is null.
C14_Original ==
  \A n \in OrderListRequests :
     /\ user # NullUser
     /\ sent[n].ep = "getAllOrders" <=> user.role = "admin"

\* the requests History issues from its effect follow the session user's role
C14_EffectFollowsRole ==
  \A n \in OrderListRequests :
     sent[n].alive => (user # NullUser /\ screen = "History"
                         /\ (sent[n].ep = "getAllOrders" <=> user.role = "admin"))

C14_Witness ==
  /\ OrderListRequests # {} /\ user = NullUser /\ screen = "AuthPage"
  /\ done.h = "handleRenew" /\ done.outcome = "ok"

C14_WitnessAdmin ==
  /\ \E n \in OrderListRequests : sent[n].ep = "getAllOrders" /\ sent[n].alive
  /\ lastNav = "/history" /\ user.role = "admin"

\* C15 as stated: each successful mutation of a page is followed by a re-fetch of
\* the list that page displays: a handleBuy run whose buy succeeded issues a
\* product-list request, a handleRenew run whose renewal succeeded issues an
\* order-list request.
MutationSucceeded(h) == done.h = h /\ Len(done.chain) >= 2

C15_Original ==
  /\ MutationSucceeded("handleBuy") =>
        \E n \in 1..Len(sent) : sent[n].ep = "getProducts"
  /\ MutationSucceeded("handleRenew") =>
        \E n \in 1..Len(sent) : sent[n].ep \in {"getAllOrders", "getHistory"}

C15_Witness ==
  /\ MutationSucceeded("handleBuy") /\ done.outcome = "ok"
  /\ screen = "Dashboard" /\ products # <<>>
  /\ \A n \in 1..Len(sent) : sent[n].ep # "getProducts"

C15_WitnessRenew ==
  /\ MutationSucceeded("handleRenew") /\ done.outcome = "getMeFailed"
  /\ screen = "History" /\ sent = <<>>

\* C16 as stated: the bearer token is the only key of browser storage that ever
\* holds a value.
C16_Original == \A k \in StorageKeys \ {"token"} : localStorage[k] = Null

\* C16: browser storage is written under three keys. The token is written only
\* by login and logout; register_email only by a successful registration and
\* reset_email only by a successful forgot-password request, each with the
\* e-mail address of the form, and neither is ever removed again.
FormSucceeded(ep) ==
  done'.h = "handleSubmit" /\ done'.outcome = "ok" /\ done'.chain = <<ep>>

C16_StorageWrites ==
  [][ /\ localStorage'["token"] # localStorage["token"] =>
            setterCalls' \cap {"login", "logout"} # {}
      /\ localStorage'["register_email"] # localStorage["register_email"] =>
            FormSucceeded("register") /\ localStorage'["register_email"] = FormEmail
      /\ localStorage'["reset_email"] # localStorage["reset_email"] =>
            FormSucceeded("forgotPassword") /\ localStorage'["reset_email"] = FormEmail
    ]_vars

C16_Witness ==
  /\ localStorage["register_email"] = FormEmail
  /\ localStorage["token"] = Null /\ sinceLogout = "out"
  /\ done.h = "logout"

C16_WitnessReset ==
  /\ localStorage["reset_email"] = FormEmail /\ localStorage["token"] # Null

\* C17 as stated: the session user, the session token and the stored token
\* change only in a step that calls login, logout or updateUser (a reload of
\* the page, which constructs the provider anew, set aside).
SessionChanged ==
  \/ user' # user
  \/ token' # token
  \/ localStorage'["token"] # localStorage["token"]

IsReload == screen' = "Loading" /\ done' = NoRun /\ localStorage' = localStorage

C17_Original == [][SessionChanged => (setterCalls' # {} \/ IsReload)]_vars

\* C17: the session user, the session token and the stored token change only in
\* a step that calls login, logout or updateUser, or in the step in which the
\* startup who-am-I request succeeds, which sets the user to the answer and the
\* token to the stored one without any of the three setters and leaves storage
\* alone; updateUser changes neither token; a reload resets user and token to
\* null and keeps storage.
C17_SessionWrites ==
  [][ /\ SessionChanged =>
           \/ setterCalls' # {}
           \/ /\ done'.h = "fetchUserOnMount" /\ done'.outcome = "ok"
              /\ user' = done'.val /\ token' = localStorage["token"]
              /\ localStorage' = localStorage
           \/ IsReload /\ user' = NullUser /\ token' = Null
      /\ setterCalls' = {"updateUser"} =>
           token' = token /\ localStorage' = localStorage
    ]_vars

C17_Witness ==
  /\ done.h = "fetchUserOnMount" /\ done.outcome = "ok" /\ setterCalls = {}
  /\ user = done.val /\ user # NullUser /\ token = localStorage["token"] /\ token # Null

C17_WitnessUpdate ==
  /\ setterCalls = {"updateUser"} /\ done.h = "handleRedeemCode" /\ done.outcome = "ok"
  /\ user # NullUser /\ user.balance = done.val.balance

\* C18 as stated: the catch of every failed call of a page component tells the
\* user with an alert or an inline message (never only on the console, never
\* with a message set on a component that is no longer shown), and the step that
\* handles a failure issues no request.
C18_Original ==
  shown # "none" => (shown \in {"alert", "inline"} /\ sent = <<>>)

C18_Witness ==
  /\ shown = "console" /\ sent = <<>>
  /\ screen = "Dashboard" /\ products = <<>> /\ dashFetches = 1
  /\ \A n \in 1..Len(inflight) : inflight[n].k # "dash.products"

C18_WitnessHistory ==
  /\ shown = "console" /\ done.h = "fetchHistory" /\ done.outcome = "failed"
  /\ screen = "History" /\ ~histLoading /\ orders = <<>>

\* C19 as stated: a 401 is rejected by the client like any other non-2xx answer,
\* and a step in which a request fails changes neither the stored token nor the
\* location.
ClientUniform ==
  \A r \in Responses :
     r.status = 401 => /\ request(r).kind = "reject"
                       /\ request(r) = request([r EXCEPT !.status = 500])

RequestFailed ==
  \/ done'.outcome \in {"failed", "buyFailed", "getMeFailed", "renewFailed",
                        "redeemFailed", "unreachable"}
  \/ shown' = "console"

C19_WitnessPage ==
  /\ done.h = "handleBuy" /\ done.outcome = "buyFailed" /\ shown = "alert"
  /\ screen = "Dashboard" /\ user # NullUser /\ localStorage["token"] = token /\ token # Null

\* C20: the balance of the session user changes only in a step that handles a
\* server answer, and to the balance in that answer: the login response, the
\* startup who-am-I, or the who-am-I of a handleBuy, handleRenew or
\* handleRedeemCode run whose mutation succeeded. Such a run always issues the
\* who-am-I request right after the mutation, and when it succeeds while a user
\* is in session that user's balance is the answer's.
MutationOf(h) ==
  CASE h = "handleBuy" -> "buyProduct"
    [] h = "handleRenew" -> "renewOrder"
    [] OTHER -> "redeemCode"

BalanceHandlers == {"handleBuy", "handleRenew", "handleRedeemCode"}

Pending(infl, kinds) == Cardinality({n \in 1..Len(infl) : infl[n].k \in kinds})

C20_BalanceFromServer ==
  [][ /\ (user' # NullUser /\ (user = NullUser \/ user'.balance # user.balance)) =>
           \/ /\ done'.h = "handleSubmit" /\ done'.outcome = "ok"
              /\ done'.chain = <<"login">> /\ user'.balance = done'.val.user.balance
           \/ /\ done'.h = "fetchUserOnMount" /\ done'.outcome = "ok"
              /\ user'.balance = done'.val.balance
           \/ /\ done'.h \in BalanceHandlers /\ done'.outcome = "ok"
              /\ user'.balance = done'.val.balance
      /\ (done'.h \in BalanceHandlers /\ done'.outcome \in {"ok", "getMeFailed"}) =>
           done'.chain = <<MutationOf(done'.h), "getMe">>
      /\ (done'.h \in BalanceHandlers /\ done'.outcome = "ok" /\ user' # NullUser) =>
           user'.balance = done'.val.balance
      /\ (/\ Pending(inflight', {"buy.buy", "renew.renew", "redeem.redeem"})
              < Pending(inflight, {"buy.buy", "renew.renew", "redeem.redeem"})
          /\ done'.h = "none" /\ ~IsReload) =>
           /\ Len(sent') = 1 /\ sent'[1].ep = "getMe"
           /\ sent'[1].auth = localStorage["token"]
    ]_vars

C20_Witness ==
  /\ done.h = "handleRedeemCode" /\ done.outcome = "ok"
  /\ done.chain = <<"redeemCode", "getMe">>
  /\ screen = "Profile" /\ user # NullUser /\ user.balance = done.val.balance
  /\ user.email = done.val.email

C20_WitnessRenew ==
  /\ done.h = "handleRenew" /\ done.outcome = "ok" /\ screen = "History"
  /\ user # NullUser /\ user.balance = done.val.balance

\* C21 as stated: the loading flag of the auth page is true exactly while a
\* submit request is pending, so at most one submit request is pending at a time.
PendingSubmits == {n \in 1..Len(inflight) : inflight[n].k \in AuthKinds}

C21_Original ==
  /\ authIsLoading <=> PendingSubmits # {}
  /\ Cardinality(PendingSubmits) <= 1

\* C21: the loading flag of the mounted auth page is true exactly while a submit
\* request issued by that instance is pending, and an instance has at most one
\* such request; the request of an instance that was unmounted stays pending
\* beside it and does not touch the flag of the form shown now.
OwnSubmits == {n \in PendingSubmits : inflight[n].alive}

C21_LoadingWhilePending ==
  /\ authIsLoading <=> OwnSubmits # {}
  /\ Cardinality(OwnSubmits) <= 1
  /\ OwnSubmits # {} => screen = "AuthPage"
  /\ \A n \in 1..Len(sent) : sent[n].k \in AuthKinds => (authIsLoading /\ sent[n].alive)

C21_Witness ==
  /\ screen = "AuthPage" /\ authIsLoading
  /\ Cardinality(OwnSubmits) = 1 /\ Cardinality(PendingSubmits) = 2

C21_WitnessSettled ==
  /\ screen = "AuthPage" /\ ~authIsLoading /\ PendingSubmits = {}
  /\ done.h = "handleSubmit" /\ done.outcome = "failed" /\ shown = "inline"

\* C22 as stated: in register mode a submit with differing password and
\* confirmation issues no request, navigates nowhere and sets the inline error;
\* that comparison being the only check, every other press of the submit button
\* issues its request.
C22_Original ==
  /\ (done.h = "handleSubmit" /\ done.outcome = "mismatch") =>
        (sent = <<>> /\ navTo = Null /\ authError # "")
  /\ done.h = "form.submit" =>
        IF done.val.differ THEN sent = <<>> /\ navTo = Null /\ authError # ""
        ELSE sent # <<>>

\* C22: when handleSubmit runs in register mode with differing password and
\* confirmation it issues no request, writes nothing to storage, navigates
\* nowhere, sets the inline error and ends with the loading flag false. The
\* press of the submit button does not reach handleSubmit while a required
\* input is empty or the e-mail is malformed: then nothing changes at all, and
\* no inline error is set even when password and confirmation differ.
C22_MismatchAndBlocked ==
  [][ /\ (done'.h = "handleSubmit" /\ done'.outcome = "mismatch") =>
           /\ sent' = <<>> /\ inflight' = inflight
           /\ localStorage' = localStorage
           /\ navTo' = Null /\ path' = path
           /\ authError' # "" /\ shown' = "inline" /\ ~authIsLoading'
      /\ done'.h = "form.submit" =>
           /\ sent' = <<>> /\ inflight' = inflight
           /\ localStorage' = localStorage
           /\ navTo' = Null /\ path' = path
           /\ authError' = authError /\ shown' = "none" /\ ~authIsLoading'
    ]_vars

C22_Witness ==
  /\ done.h = "form.submit" /\ done.val.differ
  /\ path = "/register" /\ authError = "" /\ sent = <<>>
  /\ localStorage["register_email"] = Null

C22_WitnessMismatch ==
  /\ done.h = "handleSubmit" /\ done.outcome = "mismatch"
  /\ path = "/register" /\ authError # "" /\ shown = "inline" /\ sent = <<>>
  /\ localStorage["register_email"] = Null

\* C23: in every state the session user is non-null exactly when the session
\* token is non-null, and a non-null session token is the token in storage.
C23_UserIffToken ==
  /\ user # NullUser <=> token # Null
  /\ token # Null => localStorage["token"] = token

C23_Witness ==
  /\ setterCalls = {"updateUser"} /\ user # NullUser
  /\ token # Null /\ localStorage["token"] = token

C23_WitnessStartup ==
  /\ loading /\ user = NullUser /\ token = Null /\ localStorage["token"] # Null

\* C24: a step that calls updateUser while no user is in session leaves the user
\* null and the session token and the stored token as they are; so the answer of
\* a balance-refresh who-am-I that arrives after logout leaves the session
\* unauthenticated with no stored token.
C24_UpdateUserAfterLogout ==
  [][ (setterCalls' = {"updateUser"} /\ user = NullUser) =>
         /\ user' = NullUser /\ token' = token
         /\ localStorage' = localStorage
         /\ (sinceLogout = "out" => (token' = Null /\ localStorage'["token"] = Null))
    ]_vars

C24_Witness ==
  /\ done.h = "handleBuy" /\ done.outcome = "ok" /\ setterCalls = {"updateUser"}
  /\ sinceLogout = "out" /\ user = NullUser /\ token = Null
  /\ localStorage["token"] = Null /\ screen = "AuthPage"

\* C25 as stated: when all overlapping balance refreshes have settled, the balance
\* of the session user is the one in the answer to the who-am-I issued last.
AllSettled ==
  /\ call.fn = "overlap"
  /\ \A n \in 1..Len(inflight) : inflight[n].k \notin OverlapKinds

C25_Original ==
  AllSettled => user.balance = call.answers[call.issued[2]].balance

C25_Witness ==
  /\ AllSettled
  /\ user.balance = call.answers[call.issued[1]].balance
  /\ user.balance # call.answers[call.issued[2]].balance
  /\ done.h \in BalanceHandlers /\ done.outcome = "ok" /\ done.val = call.answers[call.issued[1]]

\* in Spec: two balance refreshes of different handlers are pending at once
C25_WitnessPending ==
  /\ Len(inflight) = 2 /\ screen = "Profile"
  /\ inflight[1].k = "buy.getMe" /\ ~inflight[1].alive
  /\ inflight[2].k = "redeem.getMe" /\ inflight[2].alive

\* where the location the user entered ends up under each route table
PublicTarget(p) == IF p \in AuthPaths THEN p ELSE "/login"
PrivateTarget(p) ==
  IF p \in UserPaths \/ (p \in AdminPaths /\ user.role = "admin") THEN p ELSE "/dashboard"

\* C26 as stated: while the token is null the auth form of an auth location is
\* shown and every other location has been redirected to /login; while the token
\* is non-null no auth form is shown and every location outside the protected
\* routes, /login included, has been redirected to /dashboard.
C26_Original ==
  /\ token = Null =>
        /\ screen = "AuthPage" /\ path \in AuthPaths
        /\ lastNav # Null => path = PublicTarget(lastNav)
  /\ token # Null =>
        /\ screen \in ProtectedScreens /\ path \notin AuthPaths
        /\ lastNav # Null => path = PrivateTarget(lastNav)

\* C26: the routes are rendered only when startup has ended with the backend
\* reachable. From then on the token selects the route table as stated, and
\* after logout the login form is shown. Until then (loading, or the
\* connection-error screen) no route exists: the token is null, the location is
\* left as it is, whatever it is, and neither a form nor a page is shown.
RoutesRendered == ~loading /\ apiReady

C26_RouteTable ==
  /\ (RoutesRendered /\ token = Null) =>
        /\ screen = "AuthPage" /\ path \in AuthPaths
        /\ lastNav # Null => path = PublicTarget(lastNav)
  /\ (RoutesRendered /\ token # Null) =>
        /\ screen \in ProtectedScreens /\ path \notin AuthPaths
        /\ lastNav # Null => path = PrivateTarget(lastNav)
  /\ ~RoutesRendered =>
        /\ token = Null /\ screen \in {"Loading", "ConnError"}
        /\ lastNav # Null => path = lastNav
  /\ done.h = "logout" => (screen = "AuthPage" /\ path = "/login")

C26_Witness ==
  /\ done.h = "fetchUserOnMount" /\ ~loading /\ ~apiReady
  /\ token = Null /\ localStorage["token"] # Null
  /\ path = "/history" /\ screen = "ConnError"

C26_WitnessLoading ==
  /\ loading /\ token = Null /\ localStorage["token"] # Null
  /\ path = "/history" /\ screen = "Loading"

C26_WitnessLogin ==
  /\ RoutesRendered /\ token # Null /\ lastNav = "/login"
  /\ path = "/dashboard" /\ screen = "Dashboard"

C26_WitnessLogout ==
  /\ done.h = "logout" /\ token = Null /\ screen = "AuthPage" /\ path = "/login"

\* C27: a buy request is issued for a product only when, in the data the client
\* holds, its quantity is above zero, it is not marked rented and the balance of
\* the session user is at least its price; the Buy button is disabled exactly
\* when one of the three fails.
Buyable(p) ==
  /\ p.quantity > 0 /\ ~p.is_rented
  /\ user # NullUser /\ user.balance >= p.price

C27_BuyOnlyWhenEnabled ==
  /\ \A n \in 1..Len(sent) :
        sent[n].ep = "buyProduct" => \E j \in 1..Len(products) : Buyable(products[j])
  /\ \A j \in 1..Len(products) : BuyDisabled(user, products[j]) <=> ~Buyable(products[j])

C27_Witness ==
  /\ screen = "Dashboard" /\ Len(sent) = 1 /\ sent[1].ep = "buyProduct"
  /\ user.balance = products[1].price /\ products[1].quantity = 1

C27_WitnessDisabled ==
  /\ screen = "Dashboard" /\ done.h = "handleBuy" /\ done.outcome = "ok"
  /\ user.balance < products[1].price /\ products[1].quantity = 1 /\ ~products[1].is_rented
\* C28 (as stated). An OTP request is issued only by the button press of an
\* order with a secret and nothing cached, and when an OTP request of the
\* mounted page settles, the per-order loading flag is false.
C28_Original ==
  [][ /\ \A n \in 1..Len(sent') : sent'[n].ep = "calcOtp" =>
            /\ screen = "History" /\ ~histLoading
            /\ otpCache[sent'[n].arg] = ""
      /\ ( /\ Pending(inflight', {"otp.calc"}) < Pending(inflight, {"otp.calc"})
           /\ screen' = "History"
           /\ \A n \in 1..Len(inflight) : inflight[n].k = "otp.calc" => inflight[n].alive )
         => \A id \in OrderIds : ~otpLoading'[id] ]_vars

\* C28 (corrected). An OTP request is issued only by a button press on the
\* mounted History table, for an order with a secret and an empty cache entry,
\* and sets the order's loading flag. While the page stays mounted a non-empty
\* cache entry never becomes empty again, so the button is not offered again.
\* A non-empty answer is stored before the clipboard write starts, and the
\* outcome of the clipboard write leaves the cache unchanged. A failed request
\* marks the order INVALID. The loading flag is false when the handler ends:
\* after an empty answer or a failure, and otherwise only after the clipboard
\* write has settled (it is still true while the clipboard write is pending,
\* unless an overlapping request of the same order ended meanwhile).
C28_OtpOnce ==
  [][ /\ \A n \in 1..Len(sent') : sent'[n].ep = "calcOtp" =>
            /\ Len(sent') = 1 /\ inflight' = Append(inflight, sent'[n])
            /\ screen = "History" /\ screen' = "History" /\ ~histLoading
            /\ otpCache[sent'[n].arg] = ""
            /\ \E j \in 1..Len(orders) :
                  orders[j].id = sent'[n].arg /\ orders[j].otp_info # ""
            /\ otpLoading'[sent'[n].arg]
      /\ \A id \in OrderIds :
            (screen = "History" /\ screen' = "History" /\ otpCache[id] # "")
              => otpCache'[id] # ""
      /\ ( /\ Pending(inflight', {"otp.clipboard"}) > Pending(inflight, {"otp.clipboard"})
           /\ inflight'[Len(inflight')].alive )
         => otpCache'[inflight'[Len(inflight')].arg] \in Otps \ {""}
      /\ (done'.h = "getOtp" /\ done'.outcome \in {"ok", "clipboardFailed"})
            => otpCache' = otpCache
      /\ (done'.h = "getOtp" /\ done'.val.alive)
            => /\ ~otpLoading'[done'.val.id]
               /\ done'.outcome = "failed" => otpCache'[done'.val.id] = "INVALID" ]_vars

\* the clipboard write was rejected and the fetched OTP is stored and shown
C28_Witness ==
  /\ done.h = "getOtp" /\ done.outcome = "clipboardFailed" /\ done.val.alive
  /\ screen = "History" /\ otpCache[1] \in Otps \ {""} /\ ~otpLoading[1]

\* the OTP is stored while the clipboard write is pending: the flag is still true
C28_WitnessPending ==
  /\ screen = "History" /\ otpCache[1] \in Otps \ {""} /\ otpLoading[1]
  /\ \E n \in 1..Len(inflight) : inflight[n].k = "otp.clipboard" /\ inflight[n].alive

\* a failed request marked the order INVALID
C28_WitnessInvalid ==
  /\ done.h = "getOtp" /\ done.outcome = "failed" /\ done.val.alive
  /\ screen = "History" /\ otpCache[1] = "INVALID"

\* a second press before the first answer: two OTP requests for one order
C28_WitnessTwice ==
  /\ screen = "History"
  /\ Pending(inflight, {"otp.calc"}) = 2
  /\ \A n \in 1..Len(inflight) : inflight[n].k = "otp.calc" => inflight[n].alive
\* the text is a decimal number: after leading white space and a sign, digits
\* and nothing else
Numeric(text) ==
  LET t == SkipSpace(text)
      body == IF t # <<>> /\ t[1] \in {"-", "+"} THEN Tail(t) ELSE t
  IN body # <<>> /\ ReadDigits(body, 0, 0).count = Len(body)

\* the step changed nothing the page or the session shows
NothingChanged ==
  /\ sent' = <<>> /\ inflight' = inflight /\ users' = users /\ shown' = "none"
  /\ user' = user /\ token' = token /\ localStorage' = localStorage
  /\ screen' = screen /\ path' = path

DeleteConfirmed == dialog'.kind = "confirm" /\ dialog'.answer

\* C29 (as stated). A delete-user request is never issued for an administrator,
\* delete requests are issued only after confirmation, and a set-balance request
\* is issued only for a non-empty answer that is a number: a cancelled, empty or
\* non-numeric answer issues no request and changes nothing.
C29_Original ==
  [][ /\ \A n \in 1..Len(sent') :
            /\ sent'[n].ep = "admin.deleteUser" =>
                  /\ DeleteConfirmed
                  /\ \E j \in 1..Len(users) :
                        users[j].id = sent'[n].arg /\ users[j].role # "admin"
            /\ sent'[n].ep = "admin.deleteOrder" => DeleteConfirmed
            /\ sent'[n].ep = "admin.setBalance" => dialog'.kind = "prompt"
      /\ dialog'.kind = "prompt" =>
            ( (dialog'.answer.cancelled \/ ~Numeric(dialog'.answer.text))
                 => NothingChanged ) ]_vars

\* C29 (corrected). A delete-user request is issued only for a listed row whose
\* role is not admin and only after confirmation, a delete-order request only
\* after confirmation, and a declined confirmation changes nothing. A set-balance
\* request is issued exactly when the prompt was answered with a non-empty text
\* for which parseInt is not NaN, and it carries parseInt of the text: a text
\* that only starts with a number ("1a", "1.5") issues a request with the
\* leading integer. A cancelled or empty answer, or one without a leading
\* number, issues no request and changes nothing.
C29_AdminRequests ==
  [][ /\ \A n \in 1..Len(sent') :
            /\ sent'[n].ep = "admin.deleteUser" =>
                  /\ DeleteConfirmed
                  /\ \E j \in 1..Len(users) :
                        users[j].id = sent'[n].arg /\ users[j].role # "admin"
            /\ sent'[n].ep = "admin.deleteOrder" => DeleteConfirmed
            /\ sent'[n].ep = "admin.setBalance" =>
                  /\ dialog'.kind = "prompt"
                  /\ \E j \in 1..Len(users) : users[j].email = sent'[n].arg.email
      /\ (dialog'.kind = "confirm" /\ ~dialog'.answer) => NothingChanged
      /\ dialog'.kind = "prompt" =>
            IF \/ dialog'.answer.cancelled
               \/ dialog'.answer.text = <<>>
               \/ parseInt(dialog'.answer.text).nan
            THEN NothingChanged
            ELSE /\ Len(sent') = 1 /\ sent'[1].ep = "admin.setBalance"
                 /\ sent'[1].arg.amount = parseInt(dialog'.answer.text).value ]_vars

\* the answer "1a" issued a set-balance request with amount 1
C29_Witness ==
  /\ dialog.kind = "prompt" /\ dialog.answer.text = <<"1", "a">>
  /\ Len(sent) = 1 /\ sent[1].ep = "admin.setBalance" /\ sent[1].arg.amount = 1

\* a confirmed delete of the customer's row
C29_WitnessDelete ==
  /\ dialog.kind = "confirm" /\ dialog.answer
  /\ Len(sent) = 1 /\ sent[1].ep = "admin.deleteUser" /\ sent[1].arg = 2

\* a confirmed delete of an order of the administrator's row
C29_WitnessDeleteOrder ==
  /\ dialog.kind = "confirm" /\ dialog.answer
  /\ Len(sent) = 1 /\ sent[1].ep = "admin.deleteOrder" /\ sent[1].arg = 8

\* a prompt answered without a number
C29_WitnessNoNumber ==
  /\ dialog.kind = "prompt" /\ dialog.answer.text = <<"a", "1">>
  /\ sent = <<>> /\ done.outcome = "notANumber"
\* startup has ended with a failed health check
Unreachable == ~loading /\ ~apiReady

\* C30: when the startup health check fails, no who-am-I request is issued, the
\* stored token is left as it is and loading ends; from then on exactly the
\* connection-error screen is shown, no request is pending, and user and token
\* stay null with the storage unchanged until the page is reloaded.
C30_HealthCheckFailed ==
  [][ /\ (\E i \in 1..Len(inflight) : inflight[i].k = "mount.health")
         /\ (\A i \in 1..Len(inflight') : inflight'[i].k # "mount.health")
         /\ ~apiReady'
         => /\ sent' = <<>> /\ inflight' = <<>>
            /\ localStorage' = localStorage
            /\ ~loading' /\ screen' = "ConnError"
            /\ user' = NullUser /\ token' = Null
      /\ (screen' = "ConnError") <=> (~loading' /\ ~apiReady')
      /\ Unreachable =>
            \/ loading' /\ screen' = "Loading" /\ localStorage' = localStorage
            \/ /\ Unreachable' /\ screen' = "ConnError"
               /\ user' = NullUser /\ token' = Null
               /\ sent' = <<>> /\ inflight' = <<>>
               /\ localStorage' = localStorage ]_vars

\* the health check failed with a token in the storage
C30_Witness ==
  /\ done.h = "fetchUserOnMount" /\ done.outcome = "unreachable"
  /\ Unreachable /\ screen = "ConnError"
  /\ localStorage["token"] # Null /\ user = NullUser /\ token = Null

\* the health check failed after a reload of an authenticated session
C30_WitnessAfterSession ==
  /\ Unreachable /\ sinceLogout = "no" /\ path = "/profile"
  /\ localStorage["token"] # Null /\ done.outcome = "unreachable"

====
